---- MODULE Spec2Model ----
(***************************************************************************)
(* Model of the Quazaa discovery services manager (CDiscovery,             *)
(* src/Quazaa/Discovery/discovery.cpp): the service map, id assignment,    *)
(* duplicate management, the registry mutex, persistence with primary /    *)
(* backup / temporary file rotation, and the rating-weighted selection;    *)
(* and of the timed signal queue (CTimedSignalQueue,                       *)
(* src/Quazaa/timedsignalqueue.cpp).                                       *)
(***************************************************************************)
EXTENDS Integers, Sequences, FiniteSets, TLC

VARIABLES
    m_mServices,  \* CDiscovery::m_mServices: map id -> service (DOMAIN = ids in use)
    m_nLastID,    \* CDiscovery::m_nLastID
    m_bSaved,     \* CDiscovery::m_bSaved
    m_pSection,   \* CDiscovery::m_pSection: [owner, depth, recursive]
    files,        \* data directory: [primary, backup, temp] -> file
    queue,        \* queued invokeMethod calls waiting for the discovery thread
    pc,           \* position of every thread in the call it is executing
    op,           \* the call a thread is executing / has executed last
    ret,          \* the value the last finished call of a thread returned
    loc,          \* locals of the call a thread is executing
    signals,      \* notifications emitted so far (serviceAdded / serviceRemoved / update / query)
    aborted,      \* the process has been terminated by a failed Q_ASSERT
    nOps,         \* number of calls every caller has started so far
    tNow,         \* wall clock, seconds (quint32); for the signal queue, getTimeInMs()
    phase,        \* position of the save / clear / load scenario driver
    expected,     \* what an observer remembers: the store before a save, the timers due at a pass
    signalQueue   \* the CTimedSignalQueue: its lock, its two containers, the timer objects

vars == << m_mServices, m_nLastID, m_bSaved, m_pSection, files, queue, pc, op,
           ret, loc, signals, aborted, nOps, tNow, phase, expected, signalQueue >>

(***************************************************************************)
(* Bounds of the model.                                                    *)
(***************************************************************************)
MaxOps == 3          \* calls started in one behaviour
MaxTime == 9         \* latest time the clock shows
MaxServices == 260   \* services held by the largest store considered
MaxClock == 3        \* latest time, in ms, the clock of the signal queue shows

(***************************************************************************)
(* Program constants and settings.                                         *)
(***************************************************************************)
\* discovery.h (value not part of the sources at hand); a rating is a quint8
DISCOVERY_MAX_PROBABILITY == 255
DISCOVERY_CODE_VERSION == 1      \* discovery.h (value not part of the sources at hand)
AccessThrottle == 2              \* quazaaSettings.Discovery.AccessThrottle, seconds
ZeroRatingRevivalInterval == 4   \* quazaaSettings.Discovery.ZeroRatingRevivalInterval, seconds

Callers == {"t1", "t2"}
Worker == "w"
Threads == Callers \cup {Worker}
NoThread == "none"

stGWC == "stGWC"
stNull == "stNull"
dpG2 == "dpG2"
dpGnutella == "dpGnutella"

(***************************************************************************)
(* URLs are sequences of characters.  QUrl strict mode rejects a URL that  *)
(* holds a blank; normalizeURL lower-cases.                                *)
(***************************************************************************)
toLowerChar(c) ==
    CASE c = "A" -> "a"
      [] c = "B" -> "b"
      [] OTHER -> c

toLower(s) == [i \in 1..Len(s) |-> toLowerChar(s[i])]

\* a normalisation that keeps the case of the url
normalizeURL_keepsCase(sURL) == sURL

normalizeURL(sURL) == toLower(sURL)

\* a validation that accepts every string
QUrlIsValid_lax(sURL) == TRUE

QUrlIsValid(sURL) == \A i \in 1..Len(sURL) : sURL[i] # " "

(***************************************************************************)
(* Services.                                                               *)
(***************************************************************************)
NullService ==
    [ m_nID |-> 0, m_oServiceURL |-> << >>, m_nServiceType |-> stNull,
      m_oNetworkType |-> {}, m_nRating |-> 0, m_bBanned |-> FALSE,
      m_bRunning |-> FALSE, m_tLastQueried |-> 0, m_nZeroRevivals |-> 0 ]

createService(sURL, eSType, oNType, nRating) ==
    [ NullService EXCEPT !.m_oServiceURL = sURL, !.m_nServiceType = eSType,
                         !.m_oNetworkType = oNType, !.m_nRating = nRating ]

\* CNetworkType::isNetwork: membership test of the bit set
isNetwork(oOwn, oType) == oType \in oOwn

\* CNetworkType::setNetwork: union merge of the bit sets
setNetwork(oOwn, oOther) == oOwn \cup oOther

\* CNetworkType::isNull
isNull(oType) == oType = "dpNull"

Min(S) == CHOOSE x \in S : \A y \in S : x <= y

Max(S) == CHOOSE x \in S : \A y \in S : x >= y

\* the elements of S in lo..hi in ascending order, collected by halves
RECURSIVE SortedIn(_, _, _)
SortedIn(S, lo, hi) ==
    IF lo > hi THEN << >>
    ELSE IF lo = hi THEN (IF lo \in S THEN << lo >> ELSE << >>)
    ELSE LET mid == (lo + hi) \div 2 IN
         SortedIn(S, lo, mid) \o SortedIn(S, mid + 1, hi)

\* the elements of a set of ids in ascending order
SortedSeq(S) == IF S = {} THEN << >> ELSE SortedIn(S, Min(S), Max(S))

\* iteration order of the std::map: ascending ids
MapOrder(services) == SortedSeq(DOMAIN services)

(***************************************************************************)
(* CDiscovery::manageDuplicates: scan the map in order.  The result names  *)
(* the service the new one duplicates (0 if none) and whether the          *)
(* type-mismatch Q_ASSERT_X was passed on the way.                         *)
(***************************************************************************)
RECURSIVE ScanDuplicates(_, _, _, _)
ScanDuplicates(ids, services, pService, asserted) ==
    IF ids = << >>
    THEN [ dup |-> FALSE, target |-> 0, asserted |-> asserted ]
    ELSE LET pExService == services[Head(ids)] IN
         IF pExService.m_oServiceURL = pService.m_oServiceURL
         THEN IF pExService.m_nServiceType = pService.m_nServiceType
              THEN [ dup |-> TRUE, target |-> Head(ids), asserted |-> asserted ]
              ELSE ScanDuplicates(Tail(ids), services, pService, TRUE)
         ELSE ScanDuplicates(Tail(ids), services, pService, asserted)

manageDuplicates(services, pService) ==
    ScanDuplicates(MapOrder(services), services, pService, FALSE)

\* do { i = find( ++m_nLastID ) } while ( i != end )
RECURSIVE NextFreeID(_, _)
NextFreeID(services, nLastID) ==
    IF (nLastID + 1) \in DOMAIN services
    THEN NextFreeID(services, nLastID + 1)
    ELSE nLastID + 1

\* addService without the assignment pService->m_nID = m_nLastID
addService_keepsID(services, nLastID, pService) ==
    LET d == manageDuplicates(services, pService) IN
    IF d.dup
    THEN [ added |-> FALSE,
           services |-> [ services EXCEPT ![d.target].m_oNetworkType =
                            setNetwork(@, pService.m_oNetworkType) ],
           lastID |-> nLastID, id |-> 0, asserted |-> d.asserted ]
    ELSE LET nLast == IF pService.m_nID = 0 \/ pService.m_nID \in DOMAIN services
                      THEN NextFreeID(services, nLastID) ELSE nLastID
             nID   == IF pService.m_nID = 0 \/ pService.m_nID \in DOMAIN services
                      THEN nLast ELSE pService.m_nID
         IN [ added |-> TRUE, services |-> (nID :> pService) @@ services,
              lastID |-> nLast, id |-> nID, asserted |-> d.asserted ]

\* addService scanning with a local counter, m_nLastID left as it was
addService_staleLastID(services, nLastID, pService) ==
    LET d == manageDuplicates(services, pService) IN
    IF d.dup
    THEN [ added |-> FALSE,
           services |-> [ services EXCEPT ![d.target].m_oNetworkType =
                            setNetwork(@, pService.m_oNetworkType) ],
           lastID |-> nLastID, id |-> 0, asserted |-> d.asserted ]
    ELSE LET nID == IF pService.m_nID = 0 \/ pService.m_nID \in DOMAIN services
                    THEN NextFreeID(services, nLastID) ELSE pService.m_nID
         IN [ added |-> TRUE,
              services |-> (nID :> [ pService EXCEPT !.m_nID = nID ]) @@ services,
              lastID |-> nLastID, id |-> nID, asserted |-> d.asserted ]

\* addService rejecting a duplicate without merging its networks
addService_noMerge(services, nLastID, pService) ==
    LET d == manageDuplicates(services, pService) IN
    IF d.dup
    THEN [ added |-> FALSE, services |-> services,
           lastID |-> nLastID, id |-> 0, asserted |-> d.asserted ]
    ELSE LET nLast == IF pService.m_nID = 0 \/ pService.m_nID \in DOMAIN services
                      THEN NextFreeID(services, nLastID) ELSE nLastID
             nID   == IF pService.m_nID = 0 \/ pService.m_nID \in DOMAIN services
                      THEN nLast ELSE pService.m_nID
         IN [ added |-> TRUE,
              services |-> (nID :> [ pService EXCEPT !.m_nID = nID ]) @@ services,
              lastID |-> nLast, id |-> nID, asserted |-> d.asserted ]

(***************************************************************************)
(* CDiscovery::add( TServicePtr& ): the new map, the new m_nLastID, the id *)
(* the service got, and whether an assertion was passed.                   *)
(***************************************************************************)
addService(services, nLastID, pService) ==
    LET d == manageDuplicates(services, pService) IN
    IF d.dup
    THEN [ added    |-> FALSE,
           services |-> [ services EXCEPT ![d.target].m_oNetworkType =
                            setNetwork(@, pService.m_oNetworkType) ],
           lastID   |-> nLastID,
           id       |-> 0,
           asserted |-> d.asserted ]
    ELSE LET clash   == pService.m_nID # 0 /\ pService.m_nID \in DOMAIN services
             nOldID  == IF clash THEN 0 ELSE pService.m_nID
             nLast   == IF nOldID = 0 THEN NextFreeID(services, nLastID) ELSE nLastID
             nID     == IF nOldID = 0 THEN nLast ELSE nOldID
             pNew    == [ pService EXCEPT !.m_nID = nID ]
         IN [ added    |-> TRUE,
              services |-> (nID :> pNew) @@ services,
              lastID   |-> nLast,
              id       |-> nID,
              asserted |-> d.asserted \/ clash ]

(***************************************************************************)
(* The registry mutex m_pSection.  A thread that locks it while another    *)
(* thread owns it waits.  A thread that locks it while owning it goes on   *)
(* if the mutex is recursive and blocks for ever if it is not; the         *)
(* declaration of the mutex is not part of the sources at hand, so both    *)
(* kinds of mutex are considered.                                          *)
(***************************************************************************)
LockFree == m_pSection.owner = NoThread

lockBy(t) == [ m_pSection EXCEPT !.owner = t, !.depth = 1 ]

unlocked == [ m_pSection EXCEPT !.owner = NoThread, !.depth = 0 ]

NoOp == [ name |-> "none", url |-> << >>, type |-> stNull, net |-> {},
          rating |-> 0, id |-> 0, flag |-> FALSE ]

NoLocals == [ pService |-> NullService, nTmp |-> 0, tNow |-> 0 ]

logSignal(sig, nID) == [ sig |-> sig, id |-> nID ]

\* the call returns nValue to thread t
return(t, nValue) ==
    /\ ret' = [ ret EXCEPT ![t] = nValue ]
    /\ pc' = [ pc EXCEPT ![t] = "idle" ]
    /\ loc' = [ loc EXCEPT ![t] = NoLocals ]

RECURSIVE sumOver(_, _)
sumOver(f, S) ==
    IF S = {} THEN 0
    ELSE LET x == CHOOSE y \in S : TRUE IN f[x] + sumOver(f, S \ { x })

totalOps == sumOver(nOps, DOMAIN nOps)

\* the calls the scenario driver makes, in order: save( true ), then, if that
\* returned true, clear(), then start(); outside the scenario every call is free
Driver == "t1"

scriptAllows(t, sName) ==
    \/ phase = "free"
    \/ t = Driver /\ phase = "ready" /\ sName = "save"
    \/ t = Driver /\ phase = "save" /\ sName = "clear" /\ ret[t] = 1
    \/ t = Driver /\ phase = "clear" /\ sName = "start"
    \/ t = Driver /\ phase = "select" /\ sName \in { "updateService", "queryService" }
    \/ phase = "dispatch" /\ (t = Driver \/ sName = "save")
    \/ t = Driver /\ phase = "count" /\ sName = "count"
    \/ phase = "timers" /\ (IF t = Driver THEN sName \in { "push", "setInterval" }
                                             ELSE sName \in { "pop", "clear" })

scriptNext(sName) ==
    CASE phase = "free" -> "free"
      [] phase = "ready" -> "save"
      [] phase = "save" -> "clear"
      [] phase = "clear" -> "load"
      [] OTHER -> phase

\* thread t starts the call o
enter(t, o) ==
    /\ pc[t] = "idle"
    /\ totalOps < MaxOps
    /\ scriptAllows(t, o.name)
    /\ phase' = scriptNext(o.name)
    /\ expected' = IF phase = "ready" THEN m_mServices ELSE expected
    /\ nOps' = [ nOps EXCEPT ![t] = @ + 1 ]
    /\ op' = [ op EXCEPT ![t] = o ]

\* thread t starts the call o of the discovery manager
begin(t, o) == enter(t, o) /\ UNCHANGED signalQueue

goto(t, label) == pc' = [ pc EXCEPT ![t] = label ]

\* a failed Q_ASSERT terminates a build that has assertions enabled
abort ==
    /\ aborted' = TRUE
    /\ pc' = [ t \in Threads |-> "aborted" ]
    /\ UNCHANGED << m_mServices, m_nLastID, m_bSaved, m_pSection, files, queue,
                    op, ret, loc, signals, nOps, tNow, phase, expected, signalQueue >>

(***************************************************************************)
(* CDiscovery::add( QString, ... ), lines 177-221.                         *)
(***************************************************************************)
AddInputs ==
    { [ url |-> << "a" >>, type |-> stGWC,  net |-> { dpG2 },       rating |-> DISCOVERY_MAX_PROBABILITY ],
      [ url |-> << "A" >>, type |-> stGWC,  net |-> { dpGnutella }, rating |-> DISCOVERY_MAX_PROBABILITY ],
      [ url |-> << "a" >>, type |-> stNull, net |-> {},             rating |-> 0 ],
      [ url |-> << "b" >>, type |-> stGWC,  net |-> { dpG2 },       rating |-> 1 ],
      [ url |-> << " " >>, type |-> stGWC,  net |-> { dpG2 },       rating |-> 1 ] }

\* validation, normalisation and construction of the service: no lock is taken
AddCall(t, in) ==
    /\ begin(t, [ NoOp EXCEPT !.name = "add", !.url = in.url, !.type = in.type,
                              !.net = in.net, !.rating = in.rating ])
    /\ IF ~QUrlIsValid(in.url)
       THEN return(t, 0)
       ELSE /\ goto(t, "add_lock")
            /\ loc' = [ loc EXCEPT ![t].pService =
                          createService(normalizeURL(in.url), in.type, in.net, in.rating) ]
            /\ ret' = [ ret EXCEPT ![t] = -1 ]
    /\ UNCHANGED << m_mServices, m_nLastID, m_bSaved, m_pSection, files, queue,
                    signals, aborted, tNow >>

\* m_pSection.lock(); add( pService ); nTmp = m_nLastID; m_pSection.unlock()
AddLocked(t) ==
    /\ pc[t] = "add_lock"
    /\ LockFree
    /\ LET r == addService(m_mServices, m_nLastID, loc[t].pService) IN
       \/ r.asserted /\ abort
       \/ /\ m_mServices' = r.services
          /\ m_nLastID' = r.lastID
          /\ IF r.added
             THEN /\ goto(t, "add_emit")
                  /\ loc' = [ loc EXCEPT ![t] = [ NoLocals EXCEPT
                                                    !.pService = r.services[r.id],
                                                    !.nTmp = r.lastID ] ]
                  /\ UNCHANGED ret
             ELSE return(t, 0)
          /\ UNCHANGED << m_bSaved, m_pSection, files, queue, op, signals, aborted,
                          nOps, tNow, phase, expected, signalQueue >>

\* emit serviceAdded( pService ); return nTmp
AddEmit(t) ==
    /\ pc[t] = "add_emit"
    /\ signals' = Append(signals, logSignal("serviceAdded", loc[t].pService.m_nID))
    /\ return(t, loc[t].nTmp)
    /\ UNCHANGED << m_mServices, m_nLastID, m_bSaved, m_pSection, files, queue,
                    op, aborted, nOps, tNow, phase, expected, signalQueue >>

(***************************************************************************)
(* CDiscovery::remove, lines 229-273.                                      *)
(***************************************************************************)
RemoveIDs == 0..3

\* a removal that leaves the service in the map
eraseService_keeps(services, nID) == services

eraseService(services, nID) ==
    [ i \in (DOMAIN services) \ { nID } |-> services[i] ]

\* remove setting m_nLastID to the freed id itself
recycleID_toFreed(nLastID, nID) == IF nID - 1 < nLastID THEN nID ELSE nLastID

\* remove without the reassignment of the freed id
recycleID_keepsLastID(nLastID, nID) == nLastID

\* if ( --nID < m_nLastID ) m_nLastID = nID
recycleID(nLastID, nID) == IF nID - 1 < nLastID THEN nID - 1 ELSE nLastID

Remove(t, nID) ==
    /\ begin(t, [ NoOp EXCEPT !.name = "remove", !.id = nID ])
    /\ IF nID = 0
       THEN /\ return(t, 0)
            /\ UNCHANGED << m_mServices, m_nLastID, signals >>
       ELSE /\ LockFree
            /\ IF nID \notin DOMAIN m_mServices
               THEN /\ return(t, 0)
                    /\ UNCHANGED << m_mServices, m_nLastID, signals >>
               ELSE /\ signals' = signals \o << logSignal("serviceRemoved", nID),
                                                logSignal("cancelRequest", nID) >>
                    /\ m_mServices' = eraseService(m_mServices, nID)
                    /\ m_nLastID' = recycleID(m_nLastID, nID)
                    /\ return(t, 1)
    /\ UNCHANGED << m_bSaved, m_pSection, files, queue, aborted, tNow >>

(***************************************************************************)
(* CDiscovery::clear, lines 282-298.                                       *)
(***************************************************************************)
RECURSIVE removalSignals(_, _)
removalSignals(ids, services) ==
    IF ids = << >> THEN << >>
    ELSE << logSignal("serviceRemoved", services[Head(ids)].m_nID) >>
         \o removalSignals(Tail(ids), services)

clearSignals(services, bInformGUI) ==
    IF bInformGUI THEN removalSignals(MapOrder(services), services) ELSE << >>

\* a clear that does not reset m_nLastID
Clear_keepsLastID(t, bInformGUI) ==
    /\ begin(t, [ NoOp EXCEPT !.name = "clear", !.flag = bInformGUI ])
    /\ LockFree
    /\ signals' = signals \o clearSignals(m_mServices, bInformGUI)
    /\ m_mServices' = << >>
    /\ return(t, 0)
    /\ UNCHANGED << m_nLastID, m_bSaved, m_pSection, files, queue, aborted, tNow >>

Clear(t, bInformGUI) ==
    /\ begin(t, [ NoOp EXCEPT !.name = "clear", !.flag = bInformGUI ])
    /\ LockFree
    /\ signals' = signals \o clearSignals(m_mServices, bInformGUI)
    /\ m_mServices' = << >>
    /\ m_nLastID' = 0
    /\ return(t, 0)
    /\ UNCHANGED << m_bSaved, m_pSection, files, queue, aborted, tNow >>

(***************************************************************************)
(* CDiscovery::count, lines 70-103.                                        *)
(***************************************************************************)
CountInputs == { "dpNull", dpG2 }

\* a count that takes banned services for working ones
countServices_countsBanned(services, oType) ==
    IF isNull(oType)
    THEN Cardinality(DOMAIN services)
    ELSE Cardinality({ i \in DOMAIN services :
                         /\ isNetwork(services[i].m_oNetworkType, oType)
                         /\ services[i].m_nRating # 0 }) % 65536

countServices(services, oType) ==
    IF isNull(oType)
    THEN Cardinality(DOMAIN services)
    ELSE Cardinality({ i \in DOMAIN services :
                         /\ isNetwork(services[i].m_oNetworkType, oType)
                         /\ ~services[i].m_bBanned
                         /\ services[i].m_nRating # 0 }) % 65536

Count(t, oType) ==
    /\ begin(t, [ NoOp EXCEPT !.name = "count", !.net = { oType } ])
    /\ LockFree
    /\ return(t, countServices(m_mServices, oType))
    /\ UNCHANGED << m_mServices, m_nLastID, m_bSaved, m_pSection, files, queue,
                    signals, aborted, tNow >>

(***************************************************************************)
(* Files of the data directory.  A file holds the version tag, the count   *)
(* written in its header and the service records that follow; a file whose *)
(* header announces more records than it holds is truncated.               *)
(***************************************************************************)
NoFile == [ exists |-> FALSE, ver |-> 0, count |-> 0, recs |-> << >> ]

emptyFile == [ exists |-> TRUE, ver |-> 0, count |-> 0, recs |-> << >> ]

\* CDiscoveryService::save: every field but the run-time flag m_bRunning
serialize(pService) ==
    [ id |-> pService.m_nID, url |-> pService.m_oServiceURL,
      type |-> pService.m_nServiceType, net |-> pService.m_oNetworkType,
      rating |-> pService.m_nRating, banned |-> pService.m_bBanned,
      lastQueried |-> pService.m_tLastQueried,
      zeroRevivals |-> pService.m_nZeroRevivals ]

\* CDiscoveryService::load
deserialize(rec) ==
    [ m_nID |-> rec.id, m_oServiceURL |-> rec.url, m_nServiceType |-> rec.type,
      m_oNetworkType |-> rec.net, m_nRating |-> rec.rating, m_bBanned |-> rec.banned,
      m_bRunning |-> FALSE, m_tLastQueried |-> rec.lastQueried,
      m_nZeroRevivals |-> rec.zeroRevivals ]

\* foreach ( TMapPair pair, m_mServices ) CDiscoveryService::save( ... )
serializeAll(services) ==
    LET ids == MapOrder(services) IN
    [ k \in 1..Len(ids) |-> serialize(services[ids[k]]) ]

(***************************************************************************)
(* CDiscovery::save( true ) = CDiscovery::asyncSyncSavingHelper,           *)
(* lines 142-148 and 398-485.  Every file operation is one step and may    *)
(* fail.                                                                   *)
(***************************************************************************)
SaveCall(t) ==
    /\ begin(t, [ NoOp EXCEPT !.name = "save", !.flag = TRUE ])
    /\ goto(t, "sv_lock")
    /\ ret' = [ ret EXCEPT ![t] = -1 ]
    /\ UNCHANGED << m_mServices, m_nLastID, m_bSaved, m_pSection, files, queue,
                    loc, signals, aborted, tNow >>

\* QMutexLocker l( &m_pSection )
SaveLock(t) ==
    /\ pc[t] = "sv_lock"
    /\ LockFree
    /\ m_pSection' = lockBy(t)
    /\ goto(t, "sv_rmtmp")
    /\ UNCHANGED << m_mServices, m_nLastID, m_bSaved, files, queue, op, ret, loc,
                    signals, aborted, nOps, tNow, phase, expected, signalQueue >>

\* return false from within the scope of the QMutexLocker
saveFailsLocked(t) ==
    /\ m_pSection' = unlocked
    /\ return(t, 0)

\* if ( QFile::exists( sTemporaryPath ) && !QFile::remove( sTemporaryPath ) ) return false
SaveRemoveTemp(t) ==
    /\ pc[t] = "sv_rmtmp"
    /\ IF files.temp.exists
       THEN \E ok \in BOOLEAN :
              IF ok
              THEN /\ files' = [ files EXCEPT !.temp = NoFile ]
                   /\ goto(t, "sv_open")
                   /\ UNCHANGED << m_pSection, ret, loc >>
              ELSE /\ saveFailsLocked(t)
                   /\ UNCHANGED files
       ELSE /\ goto(t, "sv_open")
            /\ UNCHANGED << files, m_pSection, ret, loc >>
    /\ UNCHANGED << m_mServices, m_nLastID, m_bSaved, queue, op, signals, aborted,
                    nOps, tNow, phase, expected, signalQueue >>

\* the snapshot written straight to sPath
stagingFile_primary == "primary"

\* the path the snapshot is written to: sTemporaryPath
stagingFile == "temp"

\* if ( !oFile.open( QIODevice::WriteOnly ) ) return false
SaveOpen(t) ==
    /\ pc[t] = "sv_open"
    /\ \E ok \in BOOLEAN :
         IF ok
         THEN /\ files' = [ files EXCEPT ![stagingFile] = emptyFile ]
              /\ goto(t, "sv_header")
              /\ UNCHANGED << m_pSection, ret, loc >>
         ELSE /\ saveFailsLocked(t)
              /\ UNCHANGED files
    /\ UNCHANGED << m_mServices, m_nLastID, m_bSaved, queue, op, signals, aborted,
                    nOps, tNow, phase, expected, signalQueue >>

\* fsFile << nVersion; fsFile << count();  count() locks m_pSection again
SaveHeader(t) ==
    /\ pc[t] = "sv_header"
    /\ IF m_pSection.recursive
       THEN /\ files' = [ files EXCEPT ![stagingFile] =
                            [ exists |-> TRUE, ver |-> DISCOVERY_CODE_VERSION,
                              count |-> countServices(m_mServices, "dpNull"),
                              recs |-> << >> ] ]
            /\ goto(t, "sv_write")
       ELSE /\ goto(t, "deadlock")
            /\ UNCHANGED files
    /\ UNCHANGED << m_mServices, m_nLastID, m_bSaved, m_pSection, queue, op, ret,
                    loc, signals, aborted, nOps, tNow, phase, expected, signalQueue >>

\* the services are written; a failing write leaves the first k records and
\* throws, the catch block returns false.  On success: m_bSaved = true; l.unlock()
SaveWrite(t) ==
    /\ pc[t] = "sv_write"
    /\ LET all == serializeAll(m_mServices) IN
       \E k \in 0..Len(all) :
         /\ files' = [ files EXCEPT ![stagingFile].recs = SubSeq(all, 1, k) ]
         /\ IF k = Len(all)
            THEN /\ m_bSaved' = TRUE
                 /\ m_pSection' = unlocked
                 /\ goto(t, "sv_rmprim")
                 /\ UNCHANGED << ret, loc >>
            ELSE /\ saveFailsLocked(t)
                 /\ UNCHANGED m_bSaved
    /\ UNCHANGED << m_mServices, m_nLastID, queue, op, signals, aborted, nOps, tNow, phase, expected, signalQueue >>

\* oFile.close(); if ( QFile::exists( sPath ) ) { if ( !QFile::remove( sPath ) ) return false; ...
SaveRemovePrimary(t) ==
    /\ pc[t] = "sv_rmprim"
    /\ IF files.primary.exists
       THEN \E ok \in BOOLEAN :
              IF ok
              THEN /\ files' = [ files EXCEPT !.primary = NoFile ]
                   /\ goto(t, "sv_rename")
                   /\ UNCHANGED << ret, loc >>
              ELSE /\ return(t, 0)
                   /\ UNCHANGED files
       ELSE /\ goto(t, "sv_rmbak")
            /\ UNCHANGED << files, ret, loc >>
    /\ UNCHANGED << m_mServices, m_nLastID, m_bSaved, m_pSection, queue, op,
                    signals, aborted, nOps, tNow, phase, expected, signalQueue >>

\* QFile::rename: fails when the source is missing or the destination exists
canRename(from, to) == from.exists /\ ~to.exists

\* ... if ( !QFile::rename( sTemporaryPath, sPath ) ) return false; }
SaveRename(t) ==
    /\ pc[t] = "sv_rename"
    /\ \E ok \in (IF canRename(files.temp, files.primary) THEN BOOLEAN ELSE { FALSE }) :
         IF ok
         THEN /\ files' = [ files EXCEPT !.primary = files.temp, !.temp = NoFile ]
              /\ goto(t, "sv_rmbak")
              /\ UNCHANGED << ret, loc >>
         ELSE /\ return(t, 0)
              /\ UNCHANGED files
    /\ UNCHANGED << m_mServices, m_nLastID, m_bSaved, m_pSection, queue, op,
                    signals, aborted, nOps, tNow, phase, expected, signalQueue >>

\* if ( QFile::exists( sBackupPath ) && !QFile::remove( sBackupPath ) ) warning
SaveRemoveBackup(t) ==
    /\ pc[t] = "sv_rmbak"
    /\ \E ok \in (IF files.backup.exists THEN BOOLEAN ELSE { FALSE }) :
         files' = IF ok THEN [ files EXCEPT !.backup = NoFile ] ELSE files
    /\ goto(t, "sv_copy")
    /\ UNCHANGED << m_mServices, m_nLastID, m_bSaved, m_pSection, queue, op, ret,
                    loc, signals, aborted, nOps, tNow, phase, expected, signalQueue >>

\* QFile::copy: fails when the source is missing or the destination exists
canCopy(from, to) == from.exists /\ ~to.exists

\* if ( !QFile::copy( sPath, sBackupPath ) ) warning;  return true
SaveCopy(t) ==
    /\ pc[t] = "sv_copy"
    /\ \E ok \in (IF canCopy(files.primary, files.backup) THEN BOOLEAN ELSE { FALSE }) :
         files' = IF ok THEN [ files EXCEPT !.backup = files.primary ] ELSE files
    /\ return(t, 1)
    /\ UNCHANGED << m_mServices, m_nLastID, m_bSaved, m_pSection, queue, op,
                    signals, aborted, nOps, tNow, phase, expected, signalQueue >>

(***************************************************************************)
(* CDiscovery::load( QString ), lines 667-714: the records of an opened    *)
(* file are read and added one by one to the cleared map; reading past the *)
(* end of a truncated file throws, and the catch block clears the map.     *)
(***************************************************************************)
RECURSIVE loadRecords(_, _, _, _, _)
loadRecords(recs, nCount, services, nLastID, asserted) ==
    IF nCount = 0
    THEN [ ok |-> TRUE, services |-> services, lastID |-> nLastID,
           asserted |-> asserted ]
    ELSE IF recs = << >>
    THEN [ ok |-> FALSE, services |-> << >>, lastID |-> 0, asserted |-> asserted ]
    ELSE LET r == addService(services, nLastID, deserialize(Head(recs))) IN
         loadRecords(Tail(recs), nCount - 1, r.services, r.lastID,
                     asserted \/ r.asserted)

\* a load that does not clear the map before it reads the records
loadFile_noClear(file) == loadRecords(file.recs, file.count, m_mServices, m_nLastID, FALSE)

\* clear(); fsFile >> nVersion; fsFile >> nCount; while ( nCount > 0 ) { ... }
loadFile(file) == loadRecords(file.recs, file.count, << >>, 0, FALSE)

(***************************************************************************)
(* CDiscovery::start, lines 111-117, and the discovery thread taking the   *)
(* queued calls one at a time.                                             *)
(***************************************************************************)
Start(t) ==
    /\ begin(t, [ NoOp EXCEPT !.name = "start" ])
    /\ queue' = Append(queue, [ NoOp EXCEPT !.name = "asyncStartUpHelper" ])
    /\ return(t, 0)
    /\ UNCHANGED << m_mServices, m_nLastID, m_bSaved, m_pSection, files, signals,
                    aborted, tNow >>

\* the slot a queued call enters; the helpers taking a TServiceID are posted
\* without a network type
helperEntry(oCall) ==
    CASE oCall.name = "asyncStartUpHelper" -> "su_lock"
      [] oCall.name = "asyncSyncSavingHelper" -> "sv_lock"
      [] oCall.name = "asyncRequestServiceListHelper" -> "hl_lock"
      [] oCall.name \in { "asyncUpdateServiceHelper", "asyncQueryServiceHelper" } ->
           IF oCall.net = {} THEN "hb_lock" ELSE "hs_nam"
      [] OTHER -> "idle"

\* a delivery that picks the call posted last instead of the one posted first
WorkerTake_takesLast ==
    /\ pc[Worker] = "idle"
    /\ queue # << >>
    /\ queue' = SubSeq(queue, 1, Len(queue) - 1)
    /\ op' = [ op EXCEPT ![Worker] = queue[Len(queue)] ]
    /\ goto(Worker, helperEntry(queue[Len(queue)]))
    /\ ret' = [ ret EXCEPT ![Worker] = -1 ]
    /\ UNCHANGED << m_mServices, m_nLastID, m_bSaved, m_pSection, files, loc,
                    signals, aborted, nOps, tNow, phase, expected, signalQueue >>

WorkerTake ==
    /\ pc[Worker] = "idle"
    /\ queue # << >>
    /\ queue' = Tail(queue)
    /\ op' = [ op EXCEPT ![Worker] = Head(queue) ]
    /\ goto(Worker, helperEntry(Head(queue)))
    /\ ret' = [ ret EXCEPT ![Worker] = -1 ]
    /\ UNCHANGED << m_mServices, m_nLastID, m_bSaved, m_pSection, files, loc,
                    signals, aborted, nOps, tNow, phase, expected, signalQueue >>

\* CDiscovery::asyncStartUpHelper, lines 487-501: QMutexLocker l( &m_pSection ); load()
StartUpLock(t) ==
    /\ pc[t] = "su_lock"
    /\ LockFree
    /\ m_pSection' = lockBy(t)
    /\ goto(t, "ld_primary")
    /\ UNCHANGED << m_mServices, m_nLastID, m_bSaved, files, queue, op, ret, loc,
                    signals, aborted, nOps, tNow, phase, expected, signalQueue >>

\* the helper returns: its QMutexLocker unlocks
startUpReturns(t, nValue) ==
    /\ m_pSection' = unlocked
    /\ return(t, nValue)

\* one call load( sPath ) of CDiscovery::load(), lines 642-665, under the
\* lock of the start-up helper; clear() locks m_pSection again
Load(t, sFile) ==
    /\ pc[t] = (IF sFile = "primary" THEN "ld_primary" ELSE "ld_backup")
    /\ IF ~files[sFile].exists
       THEN /\ IF sFile = "primary"
               THEN goto(t, "ld_backup") /\ UNCHANGED << m_pSection, ret, loc >>
               ELSE startUpReturns(t, 0)
            /\ UNCHANGED << m_mServices, m_nLastID, aborted >>
       ELSE IF ~m_pSection.recursive
       THEN /\ goto(t, "deadlock")
            /\ UNCHANGED << m_mServices, m_nLastID, m_pSection, ret, loc, aborted >>
       ELSE LET r == loadFile(files[sFile]) IN
            \/ /\ r.asserted
               /\ aborted' = TRUE
               /\ pc' = [ u \in Threads |-> "aborted" ]
               /\ UNCHANGED << m_mServices, m_nLastID, m_pSection, ret, loc >>
            \/ /\ m_mServices' = r.services
               /\ m_nLastID' = r.lastID
               /\ IF r.ok
                  THEN startUpReturns(t, 1)
                  ELSE IF sFile = "primary"
                  THEN goto(t, "ld_backup") /\ UNCHANGED << m_pSection, ret, loc >>
                  ELSE startUpReturns(t, 0)
               /\ UNCHANGED aborted
    /\ UNCHANGED << m_bSaved, files, queue, op, signals, nOps, tNow, phase, expected, signalQueue >>

(***************************************************************************)
(* CDiscovery::getRandomService, lines 927-987.  nTotalRating is quint16.  *)
(* Time stamps are quint32 seconds; the clock of the model stays far below *)
(* 2^32, where their sums do not wrap.                                     *)
(***************************************************************************)
u16(n) == n % 65536

\* CDiscoveryService::setRating
setRating(pService, nRating) == [ pService EXCEPT !.m_nRating = nRating ]

\* if ( !bRatingEnabled ) { if ( m_tLastQueried + ZeroRatingRevivalInterval > tNow ) ...
revives(pService, tTime) ==
    /\ pService.m_nRating = 0
    /\ pService.m_tLastQueried + ZeroRatingRevivalInterval > tTime

\* m_tLastQueried + AccessThrottle > tNow
passesThrottle(pService, tTime) ==
    pService.m_tLastQueried + AccessThrottle > tTime

\* the service as the loop body leaves it
visit(pService, tTime) ==
    IF ~pService.m_bBanned /\ revives(pService, tTime)
    THEN [ setRating(pService, DISCOVERY_MAX_PROBABILITY)
             EXCEPT !.m_nZeroRevivals = @ + 1 ]
    ELSE pService

\* the test of the loop body without its last conjunct, !pService->m_bRunning
considered_ignoresRunning(pOld, pVisited, oNType, tTime) ==
    /\ ~pOld.m_bBanned
    /\ isNetwork(pVisited.m_oNetworkType, oNType)
    /\ pVisited.m_nRating # 0
    /\ pVisited.m_tLastQueried + AccessThrottle > tTime

\* whether the loop body pushes the (visited) service to the list
considered(pOld, pVisited, oNType, tTime) ==
    /\ ~pOld.m_bBanned
    /\ isNetwork(pVisited.m_oNetworkType, oNType)
    /\ pVisited.m_nRating # 0
    /\ passesThrottle(pVisited, tTime)
    /\ ~pVisited.m_bRunning

\* foreach ( TMapPair pair, m_mServices ) { ... list.push_back( pService ); }
buildList(ids, services, oNType, tTime) ==
    SelectSeq(ids, LAMBDA i : considered(services[i], visit(services[i], tTime),
                                         oNType, tTime))

\* the sum of the ratings of list[lo..hi], added up by halves
RECURSIVE sumRatings(_, _, _, _)
sumRatings(list, services, lo, hi) ==
    IF lo > hi THEN 0
    ELSE IF lo = hi THEN services[list[lo]].m_nRating
    ELSE LET mid == (lo + hi) \div 2 IN
         sumRatings(list, services, lo, mid) + sumRatings(list, services, mid + 1, hi)

\* nTotalRating += pService->m_nRating, in 16 bits: the sum modulo 2^16
totalRating(list, services) == u16(sumRatings(list, services, 1, Len(list)))

\* while ( nSelectedRating > pSelected->m_nRating ) { nSelectedRating -= ...; ++current }
\* the position the walk stops at; Len( list ) + 1 is past the end of the list
RECURSIVE walk(_, _, _, _)
walk(list, services, k, nSelectedRating) ==
    IF k > Len(list) THEN k
    ELSE IF nSelectedRating > services[list[k]].m_nRating
    THEN walk(list, services, k + 1, u16(nSelectedRating - services[list[k]].m_nRating))
    ELSE k

\* the map after the loop, the candidate list, and nTotalRating
selection(services, oNType, tTime) ==
    LET visited == [ i \in DOMAIN services |-> visit(services[i], tTime) ]
        list    == buildList(MapOrder(services), services, oNType, tTime)
    IN [ services |-> visited, list |-> list, total |-> totalRating(list, visited) ]

(***************************************************************************)
(* CDiscovery::updateService / queryService by network type, lines         *)
(* 361-367 and 382-388, and the queued helpers, lines 513-543 and 575-605. *)
(***************************************************************************)
SelectTypes == { dpG2, dpGnutella }

PostByNetwork(t, sCall, oType) ==
    /\ begin(t, [ NoOp EXCEPT !.name = sCall, !.net = { oType } ])
    /\ queue' = Append(queue, [ NoOp EXCEPT
                                  !.name = (IF sCall = "updateService"
                                            THEN "asyncUpdateServiceHelper"
                                            ELSE "asyncQueryServiceHelper"),
                                  !.net = { oType } ])
    /\ return(t, 0)
    /\ UNCHANGED << m_mServices, m_nLastID, m_bSaved, m_pSection, files, signals,
                    aborted, tNow >>

\* a helper that posts itself again when the network is reported down
HelperNAM_retries(t) ==
    /\ pc[t] = "hs_nam"
    /\ LockFree
    /\ \E bAccessible \in BOOLEAN :
         IF bAccessible
         THEN goto(t, "hs_select") /\ UNCHANGED << ret, loc, queue >>
         ELSE return(t, 0) /\ queue' = Append(queue, op[t])
    /\ UNCHANGED << m_mServices, m_nLastID, m_bSaved, m_pSection, files, op,
                    signals, aborted, nOps, tNow, phase, expected, signalQueue >>

\* requestNAM() takes and releases the lock; the network may be reported down
HelperNAM(t) ==
    /\ pc[t] = "hs_nam"
    /\ LockFree
    /\ \E bAccessible \in BOOLEAN :
         IF bAccessible
         THEN goto(t, "hs_select") /\ UNCHANGED << ret, loc >>
         ELSE return(t, 0)
    /\ UNCHANGED << m_mServices, m_nLastID, m_bSaved, m_pSection, files, queue, op,
                    signals, aborted, nOps, tNow, phase, expected, signalQueue >>

\* QDateTime::currentDateTimeUtc().toTime_t(): the clock has not gone back
clockReadings == { t \in tNow..MaxTime : (t - tNow) % 2 = 0 }

\* m_pSection.lock(); pService = getRandomService( type ); m_pSection.unlock()
HelperSelect(t) ==
    /\ pc[t] = "hs_select"
    /\ LockFree
    /\ tNow' \in clockReadings
    /\ \E sel \in { selection(m_mServices, CHOOSE n \in op[t].net : TRUE, tNow') } :
          /\ m_mServices' = sel.services
          /\ IF sel.list = << >>
             THEN return(t, 0)
             ELSE \E k \in { walk(sel.list, sel.services, 1, nSelectedRating) :
                               nSelectedRating \in 1..sel.total } :
                    /\ k <= Len(sel.list)
                    /\ loc' = [ loc EXCEPT ![t] = [ NoLocals EXCEPT
                                  !.pService = sel.services[sel.list[k]],
                                  !.tNow = tNow' ] ]
                    /\ goto(t, "hs_call")
                    /\ UNCHANGED ret
    /\ UNCHANGED << m_nLastID, m_bSaved, m_pSection, files, queue, op, signals,
                    aborted, nOps, phase, expected, signalQueue >>

\* pService->update() / pService->query(): the request is in flight
HelperCall(t) ==
    /\ pc[t] = "hs_call"
    /\ signals' = Append(signals,
                    logSignal(IF op[t].name = "asyncUpdateServiceHelper"
                              THEN "update" ELSE "query", loc[t].pService.m_nID))
    /\ m_mServices' = IF loc[t].pService.m_nID \in DOMAIN m_mServices
                      THEN [ m_mServices EXCEPT ![loc[t].pService.m_nID].m_bRunning = TRUE ]
                      ELSE m_mServices
    /\ return(t, 1)
    /\ UNCHANGED << m_nLastID, m_bSaved, m_pSection, files, queue, op, aborted,
                    nOps, tNow, phase, expected, signalQueue >>

(***************************************************************************)
(* CDiscovery::save( false ), lines 149-165: the lock is taken to read     *)
(* m_bSaved; an unsaved manager posts asyncSyncSavingHelper.               *)
(***************************************************************************)
SaveAsyncCall(t) ==
    /\ begin(t, [ NoOp EXCEPT !.name = "save", !.flag = FALSE ])
    /\ goto(t, "sa_lock")
    /\ ret' = [ ret EXCEPT ![t] = -1 ]
    /\ UNCHANGED << m_mServices, m_nLastID, m_bSaved, m_pSection, files, queue,
                    loc, signals, aborted, tNow >>

\* m_pSection.lock(); if ( m_bSaved ) ... else ...; m_pSection.unlock()
SaveAsyncLocked(t) ==
    /\ pc[t] = "sa_lock"
    /\ LockFree
    /\ IF m_bSaved
       THEN return(t, 1) /\ UNCHANGED queue
       ELSE /\ queue' = Append(queue, [ NoOp EXCEPT !.name = "asyncSyncSavingHelper" ])
            /\ return(t, 0)
    /\ UNCHANGED << m_mServices, m_nLastID, m_bSaved, m_pSection, files, op,
                    signals, aborted, nOps, tNow, phase, expected, signalQueue >>

(***************************************************************************)
(* CDiscovery::requestServiceList, lines 350-353, and its helper, lines    *)
(* 503-511.                                                                *)
(***************************************************************************)
RequestServiceList(t) ==
    /\ begin(t, [ NoOp EXCEPT !.name = "requestServiceList" ])
    /\ queue' = Append(queue, [ NoOp EXCEPT !.name = "asyncRequestServiceListHelper" ])
    /\ return(t, 0)
    /\ UNCHANGED << m_mServices, m_nLastID, m_bSaved, m_pSection, files, signals,
                    aborted, tNow >>

RECURSIVE infoSignals(_)
infoSignals(ids) ==
    IF ids = << >> THEN << >>
    ELSE << logSignal("serviceInfo", Head(ids)) >> \o infoSignals(Tail(ids))

\* m_pSection.lock(); foreach ... emit serviceInfo( pair.second ); m_pSection.unlock()
HelperList(t) ==
    /\ pc[t] = "hl_lock"
    /\ LockFree
    /\ signals' = signals \o infoSignals(MapOrder(m_mServices))
    /\ return(t, 0)
    /\ UNCHANGED << m_mServices, m_nLastID, m_bSaved, m_pSection, files, queue, op,
                    aborted, nOps, tNow, phase, expected, signalQueue >>

(***************************************************************************)
(* CDiscovery::updateService / queryService by id, lines 369-375 and       *)
(* 390-396, and the queued helpers, lines 545-573 and 607-635.             *)
(***************************************************************************)
PostIDs == 1..2

PostById(t, sCall, nID) ==
    /\ begin(t, [ NoOp EXCEPT !.name = sCall, !.id = nID ])
    /\ queue' = Append(queue, [ NoOp EXCEPT
                                  !.name = (IF sCall = "updateService"
                                            THEN "asyncUpdateServiceHelper"
                                            ELSE "asyncQueryServiceHelper"),
                                  !.id = nID ])
    /\ return(t, 0)
    /\ UNCHANGED << m_mServices, m_nLastID, m_bSaved, m_pSection, files, signals,
                    aborted, tNow >>

\* a helper that leaves alone a service whose request is still in flight
HelperById_skipsRunning(t) ==
    /\ pc[t] = "hb_lock"
    /\ LockFree
    /\ IF op[t].id \notin DOMAIN m_mServices
       THEN \/ abort /\ UNCHANGED << ret, loc >>
            \/ return(t, 0) /\ UNCHANGED aborted
       ELSE IF m_mServices[op[t].id].m_bRunning
       THEN return(t, 0) /\ UNCHANGED aborted
       ELSE /\ loc' = [ loc EXCEPT ![t] = [ NoLocals EXCEPT
                                             !.pService = m_mServices[op[t].id] ] ]
            /\ goto(t, "hs_call")
            /\ UNCHANGED << ret, aborted >>
    /\ UNCHANGED << m_mServices, m_nLastID, m_bSaved, m_pSection, files, queue, op,
                    signals, nOps, tNow, phase, expected, signalQueue >>

\* m_pSection.lock(); find( nID ); m_pSection.unlock(); no test of the network,
\* of m_bBanned, of m_bRunning or of the rating.  An id that is not found
\* fails Q_ASSERT( false ) or, with assertions compiled out, returns.
HelperById(t) ==
    /\ pc[t] = "hb_lock"
    /\ LockFree
    /\ IF op[t].id \notin DOMAIN m_mServices
       THEN \/ abort /\ UNCHANGED << ret, loc >>
            \/ return(t, 0) /\ UNCHANGED aborted
       ELSE /\ loc' = [ loc EXCEPT ![t] = [ NoLocals EXCEPT
                                             !.pService = m_mServices[op[t].id] ] ]
            /\ goto(t, "hs_call")
            /\ UNCHANGED << ret, aborted >>
    /\ UNCHANGED << m_mServices, m_nLastID, m_bSaved, m_pSection, files, queue, op,
                    signals, nOps, tNow, phase, expected, signalQueue >>

(***************************************************************************)
(* The timed signal queue, CTimedSignalQueue signalQueue of                *)
(* src/Quazaa/timedsignalqueue.cpp.  Timer objects live on the heap, a     *)
(* pointer is an index into it; m_Signals is the list of pointers,         *)
(* m_QueuedSignals the multimap from due time to pointer, kept as the      *)
(* sequence of its entries in iteration order.  A deleted object stays in  *)
(* the heap, marked, so that pointers to it can be told apart.             *)
(***************************************************************************)
NoSignals ==
    [ m_pSection |-> NoThread, m_Signals |-> << >>, m_QueuedSignals |-> << >>,
      heap |-> << >> ]

\* QMutexLocker l( &m_pSection ) of the queue can be taken
QueueLockFree == signalQueue.m_pSection = NoThread

\* CTimerObject::resetTime: m_tTime = getTimeInMs() + m_tInterval
resetTime(pTimer, tTimeMs) == [ pTimer EXCEPT !.m_tTime = tTimeMs + pTimer.m_tInterval ]

\* CTimerObject( obj, member, tInterval, bMultiShot, ... )
intervalTimer(tInterval, bMultiShot, tTimeMs, oUUID) ==
    resetTime([ m_tTime |-> 0, m_tInterval |-> tInterval, m_bMultiShot |-> bMultiShot,
                m_oUUID |-> oUUID, deleted |-> FALSE ], tTimeMs)

\* CTimerObject( const CTimerObject* const pTimerObject ): time, interval,
\* multi-shot flag and UUID are copied
copyTimer(pTimerObject) == [ pTimerObject EXCEPT !.deleted = FALSE ]

\* QUuid::createUuid(): an id no timer has had
createUuid(heap) == Len(heap) + 1

\* QMultiMap::insert: entries are ordered by key, the entry inserted last
\* comes first among those of its key
insertQueued(q, tKey, p) ==
    LET n == Cardinality({ k \in 1..Len(q) : q[k].key < tKey }) IN
    SubSeq(q, 1, n) \o << [ key |-> tKey, value |-> p ] >> \o SubSeq(q, n + 1, Len(q))

eraseAt(s, k) == SubSeq(s, 1, k - 1) \o SubSeq(s, k + 1, Len(s))

\* the locked part of push( CTimerObject* )
pushTimer(sq, p) ==
    [ sq EXCEPT !.m_QueuedSignals = insertQueued(@, sq.heap[p].m_tTime, p),
                !.m_Signals = Append(@, p) ]

\* the loop of pop( QUuid ) and of setInterval over m_Signals: the entries
\* whose object shows the UUID looked for.  A pointer to a deleted object is
\* read as the object was left.
hitsOf(sq, oTimer_ID) ==
    { i \in 1..Len(sq.m_Signals) : sq.heap[sq.m_Signals[i]].m_oUUID = oTimer_ID }

\* the loop has read from, or deletes again, an object already deleted
readsDeleted(sq, oTimer_ID) ==
    LET hits == hitsOf(sq, oTimer_ID)
        last == IF hits = {} THEN Len(sq.m_Signals) ELSE Min(hits)
    IN \E j \in 1..last : sq.heap[sq.m_Signals[j]].deleted

\* pop( QUuid ) under the lock: the first list entry with the UUID is taken
\* out of the queue (first entry holding the pointer), deleted and erased
popTimer(sq, oTimer_ID) ==
    LET hits == hitsOf(sq, oTimer_ID) IN
    IF hits = {} THEN [ found |-> FALSE, sq |-> sq ]
    ELSE LET i == Min(hits)
             p == sq.m_Signals[i]
             qs == { k \in 1..Len(sq.m_QueuedSignals) : sq.m_QueuedSignals[k].value = p }
         IN [ found |-> TRUE,
              sq |-> [ sq EXCEPT
                         !.m_QueuedSignals = IF qs = {} THEN @ ELSE eraseAt(@, Min(qs)),
                         !.heap = [ @ EXCEPT ![p].deleted = TRUE ],
                         !.m_Signals = eraseAt(@, i) ] ]

\* the process is terminated by an access to freed memory
crash ==
    /\ aborted' = TRUE
    /\ pc' = [ u \in Threads |-> "aborted" ]

discoveryUnchanged == UNCHANGED << m_mServices, m_nLastID, m_bSaved, m_pSection, files, queue >>

TimerInputs ==
    { [ tInterval |-> 0, bMultiShot |-> TRUE ],
      [ tInterval |-> 2, bMultiShot |-> TRUE ],
      [ tInterval |-> 1, bMultiShot |-> FALSE ] }

\* push( parent, signal, tInterval, bMultiShot, ... ): new CTimerObject( ... ),
\* lines 186-195; the
\* constructor reads the clock before the lock is asked for
PushCall(t, in) ==
    /\ enter(t, [ name |-> "push", in |-> in ])
    /\ signalQueue' = [ signalQueue EXCEPT !.heap = Append(@,
                          intervalTimer(in.tInterval, in.bMultiShot, tNow,
                                        createUuid(signalQueue.heap))) ]
    /\ loc' = [ loc EXCEPT ![t] = [ pTimedSignal |-> Len(signalQueue.heap) + 1 ] ]
    /\ goto(t, "ps_lock")
    /\ ret' = [ ret EXCEPT ![t] = -1 ]
    /\ discoveryUnchanged
    /\ UNCHANGED << signals, aborted, tNow >>

\* push( CTimerObject* ), lines 206-212
PushLocked(t) ==
    /\ pc[t] = "ps_lock"
    /\ QueueLockFree
    /\ signalQueue' = pushTimer(signalQueue, loc[t].pTimedSignal)
    /\ return(t, signalQueue.heap[loc[t].pTimedSignal].m_oUUID)
    /\ discoveryUnchanged
    /\ UNCHANGED << op, signals, aborted, nOps, tNow, phase, expected >>

PopIDs == 1..2

\* pop( QUuid ), lines 246-275
Pop(t, oTimer_ID) ==
    /\ enter(t, [ name |-> "pop", oTimer_ID |-> oTimer_ID ])
    /\ QueueLockFree
    /\ \/ /\ readsDeleted(signalQueue, oTimer_ID)
          /\ crash
          /\ UNCHANGED << signalQueue, ret, loc >>
       \/ /\ LET r == popTimer(signalQueue, oTimer_ID) IN
               /\ signalQueue' = r.sq
               /\ return(t, IF r.found THEN 1 ELSE 0)
          /\ UNCHANGED aborted
    /\ discoveryUnchanged
    /\ UNCHANGED << signals, tNow >>

\* clear(), lines 134-143: every queued object is deleted, both containers emptied
ClearQueue(t) ==
    /\ enter(t, [ name |-> "clear" ])
    /\ QueueLockFree
    /\ signalQueue' =
         [ signalQueue EXCEPT
             !.heap = [ p \in DOMAIN @ |->
                          IF \E k \in 1..Len(signalQueue.m_QueuedSignals) :
                               signalQueue.m_QueuedSignals[k].value = p
                          THEN [ @[p] EXCEPT !.deleted = TRUE ] ELSE @[p] ],
             !.m_QueuedSignals = << >>,
             !.m_Signals = << >> ]
    /\ return(t, 0)
    /\ discoveryUnchanged
    /\ UNCHANGED << signals, aborted, tNow >>

NewIntervals == { 1 }

\* setInterval, lines 276-285 and 293-294: the timer is looked up and copied
\* under the lock, which is released before pop and push are called
SetIntervalFind(t, oTimer_ID, tInterval) ==
    /\ enter(t, [ name |-> "setInterval", oTimer_ID |-> oTimer_ID, tInterval |-> tInterval ])
    /\ QueueLockFree
    /\ \/ /\ readsDeleted(signalQueue, oTimer_ID)
          /\ crash
          /\ UNCHANGED << signalQueue, ret, loc >>
       \/ /\ LET hits == hitsOf(signalQueue, oTimer_ID) IN
               IF hits = {}
               THEN return(t, 0) /\ UNCHANGED signalQueue
               ELSE /\ signalQueue' = [ signalQueue EXCEPT !.heap = Append(@,
                                          copyTimer(@[signalQueue.m_Signals[Min(hits)]])) ]
                    /\ loc' = [ loc EXCEPT ![t] = [ pTimerCopy |-> Len(signalQueue.heap) + 1 ] ]
                    /\ goto(t, "si_pop")
                    /\ ret' = [ ret EXCEPT ![t] = -1 ]
          /\ UNCHANGED aborted
    /\ discoveryUnchanged
    /\ UNCHANGED << signals, tNow >>

\* pop( oTimer_ID ), line 286: its result is not looked at
SetIntervalPop(t) ==
    /\ pc[t] = "si_pop"
    /\ QueueLockFree
    /\ \/ /\ readsDeleted(signalQueue, op[t].oTimer_ID)
          /\ crash
          /\ UNCHANGED signalQueue
       \/ /\ signalQueue' = popTimer(signalQueue, op[t].oTimer_ID).sq
          /\ goto(t, "si_reset")
          /\ UNCHANGED aborted
    /\ discoveryUnchanged
    /\ UNCHANGED << op, ret, loc, signals, nOps, tNow, phase, expected >>

\* pTimerCopy->m_tInterval = tInterval; pTimerCopy->resetTime(), lines 287-288
SetIntervalReset(t) ==
    /\ pc[t] = "si_reset"
    /\ signalQueue' = [ signalQueue EXCEPT !.heap[loc[t].pTimerCopy] =
                          resetTime([ @ EXCEPT !.m_tInterval = op[t].tInterval ], tNow) ]
    /\ goto(t, "si_push")
    /\ discoveryUnchanged
    /\ UNCHANGED << op, ret, loc, signals, aborted, nOps, tNow, phase, expected >>

\* push( pTimerCopy ); return true, lines 289-290
SetIntervalPush(t) ==
    /\ pc[t] = "si_push"
    /\ QueueLockFree
    /\ signalQueue' = pushTimer(signalQueue, loc[t].pTimerCopy)
    /\ return(t, 1)
    /\ discoveryUnchanged
    /\ UNCHANGED << op, signals, aborted, nOps, tNow, phase, expected >>

\* a pass that also fires the timers due exactly at the time it read
isDue_inclusive(tKey, tTimeMs) == tKey <= tTimeMs

\* if ( it.key() >= tTimeMs ) break;
isDue(tKey, tTimeMs) == ~(tKey >= tTimeMs)

\* the entries of the queue a pass starting at tTimeMs finds due, in the
\* order of the queue
dueTimers(q, tTimeMs) == SelectSeq(q, LAMBDA e : e.key < tTimeMs)

\* checkSchedule, lines 164-167: the lock is taken for the whole pass and the
\* clock is read once; the observer notes what the pass finds
CheckLock(t) ==
    /\ pc[t] = "idle"
    /\ QueueLockFree
    /\ signalQueue' = [ signalQueue EXCEPT !.m_pSection = t ]
    /\ op' = [ op EXCEPT ![t] = [ name |-> "checkSchedule" ] ]
    /\ loc' = [ loc EXCEPT ![t] = [ tTimeMs |-> tNow ] ]
    /\ goto(t, "cs_loop")
    /\ ret' = [ ret EXCEPT ![t] = -1 ]
    /\ expected' = [ due |-> dueTimers(signalQueue.m_QueuedSignals, tNow),
                     first |-> Len(signals) + 1 ]
    /\ discoveryUnchanged
    /\ UNCHANGED << signals, aborted, nOps, tNow, phase >>

\* one round of the loop of lines 168-184; invokeMethod may fail
CheckStep(t) ==
    /\ pc[t] = "cs_loop"
    /\ LET q == signalQueue.m_QueuedSignals IN
       IF q = << >> \/ ~isDue(q[1].key, loc[t].tTimeMs)
       THEN /\ signalQueue' = [ signalQueue EXCEPT !.m_pSection = NoThread ]
            /\ return(t, 0)
            /\ UNCHANGED signals
       ELSE \E bSuccess \in BOOLEAN :
              LET pObj == q[1].value
                  erased == [ signalQueue EXCEPT !.m_QueuedSignals = Tail(q) ]
              IN /\ signals' = Append(signals,
                                 logSignal(IF bSuccess THEN "emitSignal" ELSE "emitSignalFailed",
                                           signalQueue.heap[pObj].m_oUUID))
                 /\ IF bSuccess /\ signalQueue.heap[pObj].m_bMultiShot
                    THEN signalQueue' =
                           LET reset == [ erased EXCEPT !.heap[pObj] = resetTime(@, tNow) ] IN
                           [ reset EXCEPT !.m_QueuedSignals =
                                            insertQueued(@, reset.heap[pObj].m_tTime, pObj) ]
                    ELSE signalQueue' = [ erased EXCEPT !.heap[pObj].deleted = TRUE ]
                 /\ UNCHANGED << pc, ret, loc >>
    /\ discoveryUnchanged
    /\ UNCHANGED << op, aborted, nOps, tNow, phase, expected >>

\* QElapsedTimer: the time read by getTimeInMs() goes on
Tick ==
    /\ tNow < MaxClock
    /\ ~aborted
    /\ tNow' = tNow + 1
    /\ discoveryUnchanged
    /\ UNCHANGED << pc, op, ret, loc, signals, aborted, nOps, phase, expected, signalQueue >>

(***************************************************************************)
(* The state after construction (lines 46-52), for every state the data    *)
(* directory may have been left in by earlier runs.                        *)
(***************************************************************************)
fileOf(nCount, recs) ==
    [ exists |-> TRUE, ver |-> DISCOVERY_CODE_VERSION, count |-> nCount, recs |-> recs ]

storedA ==
    serialize([ createService(<< "a" >>, stGWC, { dpG2 }, DISCOVERY_MAX_PROBABILITY)
                  EXCEPT !.m_nID = 1 ])

storedB ==
    serialize([ createService(<< "b" >>, stGWC, { dpGnutella }, 1)
                  EXCEPT !.m_nID = 2, !.m_tLastQueried = 1 ])

InitialDirs ==
    { [ primary |-> NoFile, backup |-> NoFile, temp |-> NoFile ],
      [ primary |-> fileOf(2, << storedA, storedB >>),
        backup  |-> fileOf(1, << storedA >>), temp |-> NoFile ],
      [ primary |-> fileOf(2, << storedA >>),
        backup  |-> fileOf(1, << storedB >>), temp |-> emptyFile ] }

InitProgram ==
    /\ m_mServices = << >>
    /\ m_nLastID = 0
    /\ m_bSaved = TRUE
    /\ \E r \in BOOLEAN : m_pSection = [ owner |-> NoThread, depth |-> 0, recursive |-> r ]
    /\ queue = << >>
    /\ pc = [ t \in Threads |-> "idle" ]
    /\ op = [ t \in Threads |-> NoOp ]
    /\ ret = [ t \in Threads |-> -1 ]
    /\ loc = [ t \in Threads |-> NoLocals ]
    /\ signals = << >>
    /\ aborted = FALSE
    /\ nOps = [ t \in Callers |-> 0 ]
    /\ tNow = 0
    /\ signalQueue = NoSignals

Init ==
    /\ InitProgram
    /\ files \in InitialDirs
    /\ phase = "free"
    /\ expected = << >>

CallerStep(t) ==
    \/ \E in \in AddInputs : AddCall(t, in)
    \/ AddLocked(t)
    \/ AddEmit(t)
    \/ \E nID \in RemoveIDs : Remove(t, nID)
    \/ \E b \in BOOLEAN : Clear(t, b)
    \/ \E oType \in CountInputs : Count(t, oType)
    \/ Start(t)
    \/ SaveCall(t)

SaveStep(t) ==
    \/ SaveLock(t)
    \/ SaveRemoveTemp(t)
    \/ SaveOpen(t)
    \/ SaveHeader(t)
    \/ SaveWrite(t)
    \/ SaveRemovePrimary(t)
    \/ SaveRename(t)
    \/ SaveRemoveBackup(t)
    \/ SaveCopy(t)

WorkerStep ==
    \/ WorkerTake
    \/ StartUpLock(Worker)
    \/ Load(Worker, "primary")
    \/ Load(Worker, "backup")

Next ==
    \/ \E t \in Callers : CallerStep(t)
    \/ \E t \in Callers : SaveStep(t)
    \/ WorkerStep

Spec == Init /\ [][Next]_vars

(***************************************************************************)
(* The round trip of the persistence: one caller holding some services     *)
(* calls save( true ), then, if that returned true, clear(), then start(), *)
(* whose start-up helper loads the files on the discovery thread.          *)
(***************************************************************************)
storeOf(pServices) ==
    LET r1 == addService(<< >>, 0, pServices[1]) IN
    IF Len(pServices) = 1 THEN r1
    ELSE addService(r1.services, r1.lastID, pServices[2])

ScenarioStores ==
    { storeOf(<< createService(<< "a" >>, stGWC, { dpG2 }, DISCOVERY_MAX_PROBABILITY) >>),
      storeOf(<< createService(<< "b" >>, stGWC, { dpG2, dpGnutella }, 1),
                 createService(<< "a" >>, stGWC, { dpG2 }, 2) >>),
      storeOf(<< createService(<< "a" >>, stGWC, { dpG2 }, 1),
                 createService(<< "a" >>, stNull, {}, 0) >>),
      storeOf(<< [ createService(<< "b" >>, stGWC, { dpGnutella }, 0)
                     EXCEPT !.m_nID = 2, !.m_bBanned = TRUE ] >>) }

InitSaveLoad ==
    /\ InitProgram
    /\ files \in InitialDirs
    /\ phase = "build"
    /\ expected = << >>

\* the driver holds one of the scenario's stores before it saves
Build ==
    /\ phase = "build"
    /\ \E st \in ScenarioStores :
         /\ m_mServices' = st.services
         /\ m_nLastID' = st.lastID
    /\ phase' = "ready"
    /\ UNCHANGED << m_bSaved, m_pSection, files, queue, pc, op, ret, loc,
                    signals, aborted, nOps, tNow, expected, signalQueue >>

NextSaveLoad ==
    \/ Build
    \/ SaveCall(Driver)
    \/ SaveStep(Driver)
    \/ Clear(Driver, FALSE)
    \/ Start(Driver)
    \/ WorkerStep

SpecSaveLoad == InitSaveLoad /\ [][NextSaveLoad]_vars

(***************************************************************************)
(* Selection: the manager holds some services in arbitrary condition, one  *)
(* caller posts updates and queries by network type, the discovery thread  *)
(* selects, and time passes.                                               *)
(***************************************************************************)
conditionOf(nID, oNet, nRating, bBanned, bRunning, tLast) ==
    [ createService(<< "a" >>, stGWC, oNet, nRating)
        EXCEPT !.m_nID = nID, !.m_bBanned = bBanned, !.m_bRunning = bRunning,
               !.m_tLastQueried = tLast ]

FirstServices ==
    { conditionOf(1, oNet, nRating, bBanned, bRunning, tLast) :
        oNet \in { { dpG2 }, { dpGnutella } }, nRating \in { 0, 2 },
        bBanned \in BOOLEAN, bRunning \in BOOLEAN, tLast \in { 0, 5 } }

SecondServices ==
    { [ conditionOf(2, { dpG2 }, nRating, FALSE, FALSE, tLast)
          EXCEPT !.m_oServiceURL = << "b" >> ] :
        nRating \in { 0, 1 }, tLast \in { 5 } }

InitSelect ==
    /\ InitProgram
    /\ files \in { [ primary |-> NoFile, backup |-> NoFile, temp |-> NoFile ] }
    /\ phase = "build"
    /\ expected = << >>

\* the manager holds one or two services and the clock shows some time
BuildSelect ==
    /\ phase = "build"
    /\ \E p1 \in FirstServices :
         \/ m_mServices' = (1 :> p1)
         \/ \E p2 \in SecondServices : m_mServices' = (1 :> p1) @@ (2 :> p2)
    /\ tNow' = 5
    /\ phase' = "select"
    /\ UNCHANGED << m_nLastID, m_bSaved, m_pSection, files, queue, pc, op, ret, loc,
                    signals, aborted, nOps, expected, signalQueue >>

NextSelect ==
    \/ BuildSelect
    \/ \E sCall \in { "updateService", "queryService" }, oType \in SelectTypes :
         PostByNetwork(Driver, sCall, oType)
    \/ WorkerTake
    \/ HelperNAM(Worker)
    \/ HelperSelect(Worker)
    \/ HelperCall(Worker)

SpecSelect == InitSelect /\ [][NextSelect]_vars

(***************************************************************************)
(* Dispatch: one caller adds and removes services and posts every kind of  *)
(* work to the discovery thread, while the other caller runs forced saves, *)
(* which hold the lock over several steps.                                 *)
(***************************************************************************)
InitDispatch ==
    /\ InitProgram
    /\ files \in InitialDirs
    /\ phase = "dispatch"
    /\ expected = << >>

DriverStep ==
    \/ \E in \in AddInputs : AddCall(Driver, in)
    \/ AddLocked(Driver)
    \/ AddEmit(Driver)
    \/ \E nID \in RemoveIDs : Remove(Driver, nID)
    \/ Clear(Driver, FALSE)
    \/ SaveAsyncCall(Driver)
    \/ SaveAsyncLocked(Driver)
    \/ Start(Driver)
    \/ RequestServiceList(Driver)
    \/ \E sCall \in { "updateService", "queryService" } :
         \/ \E oType \in SelectTypes : PostByNetwork(Driver, sCall, oType)
         \/ \E nID \in PostIDs : PostById(Driver, sCall, nID)

HelperStep ==
    \/ HelperNAM(Worker)
    \/ HelperSelect(Worker)
    \/ HelperCall(Worker)
    \/ HelperList(Worker)
    \/ HelperById(Worker)

NextDispatch ==
    \/ DriverStep
    \/ SaveCall("t2")
    \/ \E t \in { "t2", Worker } : SaveStep(t)
    \/ WorkerStep
    \/ HelperStep

SpecDispatch == InitDispatch /\ [][NextDispatch]_vars

(***************************************************************************)
(* Weighted choice: the manager holds up to three services that all pass   *)
(* the tests of the selection loop, or a large number of them, and the     *)
(* discovery thread selects.                                               *)
(***************************************************************************)
candidateOf(nID, nRating) ==
    [ conditionOf(nID, { dpG2 }, nRating, FALSE, FALSE, 5)
        EXCEPT !.m_oServiceURL = << "s", ToString(nID) >> ]

WalkRatings == { 1, 2, DISCOVERY_MAX_PROBABILITY }

SmallStores ==
    UNION { [ 1..n -> WalkRatings ] : n \in 1..3 }

InitWalk == InitSelect

BuildWalk ==
    /\ phase = "build"
    /\ \/ \E ratings \in SmallStores :
            m_mServices' = [ i \in DOMAIN ratings |-> candidateOf(i, ratings[i]) ]
       \/ m_mServices' = [ i \in 1..MaxServices |->
                             candidateOf(i, DISCOVERY_MAX_PROBABILITY) ]
    /\ tNow' = 5
    /\ phase' = "select"
    /\ UNCHANGED << m_nLastID, m_bSaved, m_pSection, files, queue, pc, op, ret, loc,
                    signals, aborted, nOps, expected, signalQueue >>

NextWalk ==
    \/ BuildWalk
    \/ \E sCall \in { "updateService", "queryService" } :
         PostByNetwork(Driver, sCall, dpG2)
    \/ WorkerTake
    \/ HelperNAM(Worker)
    \/ HelperSelect(Worker)
    \/ HelperCall(Worker)

SpecWalk == InitWalk /\ [][NextWalk]_vars

(***************************************************************************)
(* Counting: the manager holds one or two services of every condition and  *)
(* a caller counts.                                                        *)
(***************************************************************************)
InitCount == InitSelect

BuildCount ==
    /\ phase = "build"
    /\ \E p1 \in FirstServices :
         \/ m_mServices' = (1 :> p1)
         \/ \E p2 \in SecondServices : m_mServices' = (1 :> p1) @@ (2 :> p2)
    /\ phase' = "count"
    /\ UNCHANGED << m_nLastID, m_bSaved, m_pSection, files, queue, pc, op, ret, loc,
                    signals, aborted, nOps, tNow, expected, signalQueue >>

NextCount ==
    \/ BuildCount
    \/ \E oType \in CountInputs : Count(Driver, oType)

SpecCount == InitCount /\ [][NextCount]_vars

(***************************************************************************)
(* The timed signal queue on its own: one thread pushes and re-times       *)
(* timers, another pops them and clears the queue, while the queue's       *)
(* thread runs checkSchedule from its timer event and time passes.         *)
(***************************************************************************)
InitTimers ==
    /\ InitProgram
    /\ files \in { [ primary |-> NoFile, backup |-> NoFile, temp |-> NoFile ] }
    /\ m_pSection.recursive
    /\ phase = "timers"
    /\ expected = << >>

TimerCallerStep(t) ==
    \/ \E in \in TimerInputs : PushCall(t, in)
    \/ PushLocked(t)
    \/ \E oTimer_ID \in PopIDs : Pop(t, oTimer_ID)
    \/ ClearQueue(t)
    \/ \E oTimer_ID \in PopIDs, tInterval \in NewIntervals :
         SetIntervalFind(t, oTimer_ID, tInterval)
    \/ SetIntervalPop(t)
    \/ SetIntervalReset(t)
    \/ SetIntervalPush(t)

NextTimers ==
    \/ \E t \in Callers : TimerCallerStep(t)
    \/ CheckLock(Worker)
    \/ CheckStep(Worker)
    \/ Tick

SpecTimers == InitTimers /\ [][NextTimers]_vars

(***************************************************************************)
(*                              Properties                                 *)
(***************************************************************************)

\* C1: after any sequence of add, remove, clear and load, every stored
\* service is stored under a key equal to its own id, that id is >= 1, and no
\* two stored services have the same id.
C1_StoreIdsValid ==
    /\ \A i \in DOMAIN m_mServices : m_mServices[i].m_nID = i /\ i >= 1
    /\ \A i, j \in DOMAIN m_mServices :
         i # j => m_mServices[i].m_nID # m_mServices[j].m_nID

\* a load, a removal and an add have all acted and two services are stored
C1_Witness ==
    /\ op[Worker].name = "asyncStartUpHelper" /\ ret[Worker] = 1
    /\ \E k \in 1..Len(signals) : signals[k].sig = "serviceRemoved"
    /\ \E t \in Callers : op[t].name = "add" /\ pc[t] = "idle" /\ ret[t] >= 1
    /\ Cardinality(DOMAIN m_mServices) = 2

\* the id a step of add inserted: the key that is new in the map
insertedIDs == (DOMAIN m_mServices') \ (DOMAIN m_mServices)

C2_AddStep(t) ==
    /\ (pc[t] = "add_lock" /\ pc'[t] = "add_emit") =>
         /\ loc'[t].nTmp >= 1
         /\ insertedIDs = { loc'[t].nTmp }
         /\ m_mServices'[loc'[t].nTmp].m_oServiceURL = loc[t].pService.m_oServiceURL
         /\ m_mServices'[loc'[t].nTmp].m_nID = loc'[t].nTmp
    /\ (pc[t] = "add_emit" /\ pc'[t] = "idle") => ret'[t] = loc[t].nTmp

\* C2: with threads calling add, remove and count concurrently, interleaved
\* at lock granularity, every add that succeeds returns the id under which its
\* own service was inserted (never 0, never the id under which another service
\* was inserted), and the stored services always have pairwise distinct ids.
C2_ConcurrentAddReturnsOwnId ==
    /\ [](\A i, j \in DOMAIN m_mServices :
            i # j => m_mServices[i].m_nID # m_mServices[j].m_nID)
    /\ [][\A t \in Callers : C2_AddStep(t)]_vars

\* both callers are inside add at the same time, each about to return its id
C2_Witness ==
    /\ pc["t1"] = "add_emit" /\ pc["t2"] = "add_emit"
    /\ loc["t1"].nTmp # loc["t2"].nTmp
    /\ loc["t1"].nTmp \in DOMAIN m_mServices
    /\ loc["t2"].nTmp \in DOMAIN m_mServices

\* the stored services with the URL and the type of pService
sameUrlAndType(services, pService) ==
    { i \in DOMAIN services :
        /\ services[i].m_oServiceURL = pService.m_oServiceURL
        /\ services[i].m_nServiceType = pService.m_nServiceType }

C3_AddStep(t) ==
    (/\ pc[t] = "add_lock"
     /\ pc'[t] # "add_lock"
     /\ ~aborted'
     /\ sameUrlAndType(m_mServices, loc[t].pService) # {}) =>
        /\ pc'[t] = "idle"
        /\ ret'[t] = 0
        /\ DOMAIN m_mServices' = DOMAIN m_mServices
        /\ m_nLastID' = m_nLastID
        /\ signals' = signals
        /\ \A i \in sameUrlAndType(m_mServices, loc[t].pService) :
             m_mServices'[i].m_oNetworkType =
               m_mServices[i].m_oNetworkType \cup loc[t].pService.m_oNetworkType

\* C3: add of a URL whose normalized form equals the URL of a stored service
\* of the same type returns 0, leaves the stored ids and m_nLastID unchanged,
\* emits no serviceAdded, and sets the existing service's networks to the
\* union of its previous networks and those of the rejected service.
C3_DuplicateAddMerges == [][\A t \in Callers : C3_AddStep(t)]_vars

\* a duplicate was rejected and its network was merged into the existing one
C3_Witness ==
    /\ \E t \in Callers :
         /\ op[t].name = "add" /\ op[t].url = << "A" >>
         /\ pc[t] = "idle" /\ ret[t] = 0
    /\ \E i \in DOMAIN m_mServices :
         /\ m_mServices[i].m_oServiceURL = << "a" >>
         /\ m_mServices[i].m_oNetworkType = { dpG2, dpGnutella }

\* a URL the strict parser rejects
strictInvalid(sURL) == \E i \in 1..Len(sURL) : sURL[i] = " "

invalidAdd(o) == o.name = "add" /\ strictInvalid(o.url)

C4_CallStep(t) ==
    (/\ pc[t] = "idle"
     /\ nOps'[t] = nOps[t] + 1
     /\ invalidAdd(op'[t])) =>
        /\ pc'[t] = "idle"
        /\ ret'[t] = 0
        /\ UNCHANGED << m_mServices, m_nLastID, m_bSaved, m_pSection, signals, queue, files >>

\* C4: add with a URL that fails strict validation returns 0 and leaves the
\* store, m_nLastID and m_bSaved unchanged, without taking the registry lock
\* and without emitting a notification.
C4_InvalidUrlRejected ==
    /\ [](\A t \in Callers :
            invalidAdd(op[t]) => pc[t] \in { "idle", "aborted" } /\ ret[t] = 0)
    /\ [][\A t \in Callers : C4_CallStep(t)]_vars

\* an add of an invalid URL has returned 0 while another thread holds the lock
C4_Witness ==
    \E t \in Callers :
      /\ invalidAdd(op[t]) /\ pc[t] = "idle" /\ ret[t] = 0
      /\ m_pSection.owner \in Callers \ { t }
      /\ m_mServices # << >>

writePhase == { "sv_lock", "sv_rmtmp", "sv_open", "sv_header", "sv_write" }

C6_SaveStep(t) ==
    (pc[t] \in writePhase /\ pc'[t] # pc[t]) =>
        /\ files'.primary = files.primary
        /\ files'.backup = files.backup
        /\ pc'[t] = "idle" => ret'[t] = 0

\* C6: if writing the snapshot to the temp file fails during save(true) (the
\* temp file cannot be opened or a write fails), save returns false and the
\* primary and the backup file are as they were before the call.
C6_FailedWriteLeavesFiles == [][\A t \in Callers : C6_SaveStep(t)]_vars

\* a save has returned false after a write failed half-way: the temp file is
\* truncated and the primary file is still there
C6_Witness ==
    \E t \in Callers :
      /\ op[t].name = "save" /\ pc[t] = "idle" /\ ret[t] = 0
      /\ files.temp.exists /\ files.temp.count > Len(files.temp.recs)
      /\ files.primary = fileOf(2, << storedA, storedB >>)

\* two stores hold the same ids and, per id, the same url, type, networks and rating
sameContent(s1, s2) ==
    /\ DOMAIN s1 = DOMAIN s2
    /\ \A i \in DOMAIN s1 :
         /\ s1[i].m_oServiceURL = s2[i].m_oServiceURL
         /\ s1[i].m_nServiceType = s2[i].m_nServiceType
         /\ s1[i].m_oNetworkType = s2[i].m_oNetworkType
         /\ s1[i].m_nRating = s2[i].m_nRating

loadFinished == phase = "load" /\ pc[Worker] = "idle" /\ queue = << >>

\* C5: for any store content and any prior state of the data directory
\* (including no primary file yet), save(true) returning true, then clearing
\* the store, then load() yields a store with the same ids and, per id, the
\* same url, type, networks and rating as before the save.
C5_RoundTrip == loadFinished => sameContent(m_mServices, expected)

\* the file holds a complete snapshot of exactly the services of the store
holdsSnapshot(file, services) ==
    /\ file.exists
    /\ file.count = Cardinality(DOMAIN services)
    /\ file.recs = serializeAll(services)

C7_ReturnStep(t) ==
    (pc[t] = "sv_copy" /\ pc'[t] = "idle" /\ ret'[t] = 1) =>
        /\ holdsSnapshot(files'.primary, expected)
        /\ ~files'.temp.exists
        /\ files'.backup # files.backup => files'.backup = files'.primary

\* C7: whenever save(true) returns true the snapshot just written has been
\* promoted: the primary file exists and holds exactly the services that were
\* in the store during the save, the temp file no longer exists, and, when
\* the backup copy succeeded, the backup equals the new primary; whether or
\* not a primary file existed before the save.
C7_SavePromotesSnapshot == [][C7_ReturnStep(Driver)]_vars

\* the discovery thread leaves getRandomService in this step
selectStep == pc[Worker] = "hs_select" /\ pc'[Worker] # "hs_select"

\* the network type the running helper was posted for
requestedType == CHOOSE n \in op[Worker].net : TRUE

C8_SelectStep ==
    (selectStep /\ pc'[Worker] = "hs_call") =>
        LET nID == loc'[Worker].pService.m_nID IN
        /\ nID \in DOMAIN m_mServices'
        /\ loc'[Worker].pService = m_mServices'[nID]
        /\ ~m_mServices'[nID].m_bBanned
        /\ ~m_mServices'[nID].m_bRunning
        /\ requestedType \in m_mServices'[nID].m_oNetworkType
        /\ m_mServices'[nID].m_nRating > 0
        /\ m_mServices[nID].m_nRating = 0 =>
             m_mServices'[nID].m_nZeroRevivals = m_mServices[nID].m_nZeroRevivals + 1

\* C8: the service returned by selection for a network type is never banned,
\* never running, always supports the requested type, and has a positive
\* rating when it is returned (a zero-rating service is returned only if it
\* was revived during that same selection).
C8_SelectedIsEligible == [][C8_SelectStep]_vars

\* a service revived by the selection is returned while a second service is stored
C8_Witness ==
    /\ pc[Worker] = "hs_call"
    /\ loc[Worker].pService.m_nZeroRevivals = 1
    /\ Cardinality(DOMAIN m_mServices) = 2
    /\ \E i \in DOMAIN m_mServices : m_mServices[i].m_bRunning \/ m_mServices[i].m_bBanned

\* C9: every service returned by selection satisfies
\* lastQueried + throttleInterval <= now; a service used more recently than
\* the throttle interval is never a candidate.
C9_SelectedNotThrottled ==
    pc[Worker] = "hs_call" =>
        loc[Worker].pService.m_tLastQueried + AccessThrottle <= loc[Worker].tNow

C10_SelectStep ==
    selectStep =>
        \A i \in DOMAIN m_mServices :
          (~m_mServices[i].m_bBanned /\ m_mServices[i].m_nRating = 0) =>
             IF m_mServices[i].m_tLastQueried + ZeroRatingRevivalInterval <= tNow'
             THEN /\ m_mServices'[i].m_nRating = DISCOVERY_MAX_PROBABILITY
                  /\ m_mServices'[i].m_nZeroRevivals = m_mServices[i].m_nZeroRevivals + 1
             ELSE /\ m_mServices'[i].m_nRating = 0
                  /\ m_mServices'[i].m_nZeroRevivals = m_mServices[i].m_nZeroRevivals
                  /\ pc'[Worker] = "hs_call" => loc'[Worker].pService.m_nID # i

\* C10: during a selection a non-banned service with rating 0 is revived
\* (rating set to DISCOVERY_MAX_PROBABILITY, zeroRevivals incremented by one)
\* if and only if lastQueried + revivalInterval <= now; one whose interval has
\* not elapsed keeps rating 0 and its zeroRevivals and is not selectable.
C10_RevivalAfterInterval == [][C10_SelectStep]_vars

\* the sum of the ratings of the listed services
ratingSum(list, services) == sumRatings(list, services, 1, Len(list))

\* C11: when the candidate list is not empty, nTotalRating (16 bits) equals
\* the sum of the candidates' ratings and is positive; for every draw in
\* 1..nTotalRating the walk stops on an element of the list, and each
\* candidate is selected by exactly as many draws as its rating.
C11_WeightedChoice ==
    pc[Worker] = "hs_select" =>
        \A tTime \in clockReadings :
          \A sel \in { selection(m_mServices, requestedType, tTime) } :
          LET stops == [ r \in 1..sel.total |-> walk(sel.list, sel.services, 1, r) ]
          IN sel.list # << >> =>
               /\ sel.total = ratingSum(sel.list, sel.services)
               /\ sel.total > 0
               /\ \A r \in 1..sel.total : stops[r] \in 1..Len(sel.list)
               /\ \A k \in 1..Len(sel.list) :
                    Cardinality({ r \in 1..sel.total : stops[r] = k })
                      = sel.services[sel.list[k]].m_nRating

\* the weighted choice is exact for the selections whose candidates' ratings
\* add up to less than 2^16
C11_ExactBelowWrap ==
    pc[Worker] = "hs_select" =>
        \A tTime \in clockReadings :
          \A sel \in { selection(m_mServices, requestedType, tTime) } :
          LET stops == [ r \in 1..sel.total |-> walk(sel.list, sel.services, 1, r) ]
          IN (sel.list # << >> /\ ratingSum(sel.list, sel.services) < 65536) =>
               /\ sel.total = ratingSum(sel.list, sel.services)
               /\ sel.total > 0
               /\ \A r \in 1..sel.total : stops[r] \in 1..Len(sel.list)
               /\ \A k \in 1..Len(sel.list) :
                    Cardinality({ r \in 1..sel.total : stops[r] = k })
                      = sel.services[sel.list[k]].m_nRating

\* thread t removes, in this step, the service with the highest id of the store
removesHighest(t) ==
    /\ pc[t] = "idle"
    /\ nOps'[t] = nOps[t] + 1
    /\ op'[t].name = "remove"
    /\ ret'[t] = 1
    /\ m_mServices # << >>
    /\ op'[t].id = Max(DOMAIN m_mServices)

\* the services add( sURL, ... ) constructs from the inputs with a valid URL
addedServices ==
    { createService(normalizeURL(in.url), in.type, in.net, in.rating) :
        in \in { i \in AddInputs : QUrlIsValid(i.url) } }

\* an add that follows the step at once and succeeds gets the id nID
nextAddGets(nID) ==
    \A pService \in addedServices :
      LET r == addService(m_mServices', m_nLastID', pService) IN
      r.added => r.id = nID

C12_RemoveStep(t) == removesHighest(t) => nextAddGets(op'[t].id)

\* C12: in every reachable state of the store, if the service with the
\* highest id is removed and a successful add follows with no operation in
\* between, the new service is assigned the id that was just freed.
C12_AddReusesFreedId == [][\A t \in Callers : C12_RemoveStep(t)]_vars

C12_DenseRemoveStep(t) ==
    (removesHighest(t) /\ DOMAIN m_mServices = 1..op'[t].id) =>
        nextAddGets(op'[t].id)

\* C12, amended: if the service with the highest id is removed while every
\* id below it is in use, a successful add that follows with no operation in
\* between is assigned the id that was just freed.
C12_AddReusesFreedIdWhenDense == [][\A t \in Callers : C12_DenseRemoveStep(t)]_vars

\* the highest of two services was removed and the add that came next got its id
C12_Witness ==
    /\ Len(signals) >= 3
    /\ LET n == Len(signals) IN
       /\ signals[n - 2] = logSignal("serviceRemoved", 2)
       /\ signals[n - 1] = logSignal("cancelRequest", 2)
       /\ signals[n] = logSignal("serviceAdded", 2)
    /\ DOMAIN m_mServices = { 1, 2 }
    /\ \E t \in Callers : op[t].name = "add" /\ pc[t] = "idle" /\ ret[t] = 2

\* no save has run or is waiting to run
neverSaved ==
    /\ \A t \in Threads : ~(op[t].name = "save" /\ op[t].flag)
    /\ op[Worker].name # "asyncSyncSavingHelper"
    /\ \A k \in 1..Len(queue) : queue[k].name # "asyncSyncSavingHelper"

\* an add or a remove has succeeded
hasMutated ==
    \E k \in 1..Len(signals) : signals[k].sig \in { "serviceAdded", "serviceRemoved" }

\* nothing has changed the store since construction
untouched ==
    /\ signals = << >>
    /\ m_mServices = << >>
    /\ \A t \in Threads : op[t].name \notin { "add", "remove", "clear", "asyncStartUpHelper" }
    /\ \A k \in 1..Len(queue) : queue[k].name # "asyncStartUpHelper"

C13_SaveStep(t) ==
    (pc[t] = "sa_lock" /\ pc'[t] = "idle" /\ neverSaved) =>
        /\ hasMutated =>
             /\ ret'[t] = 0
             /\ queue' = Append(queue, [ NoOp EXCEPT !.name = "asyncSyncSavingHelper" ])
        /\ untouched =>
             /\ ret'[t] = 1
             /\ queue' = queue
             /\ files' = files

\* C13: save( false ) returns true, without I/O and without posting work,
\* exactly when no successful mutating operation has occurred since the last
\* successful save (here: since construction, no save having run); after a
\* mutation it posts one save to the discovery thread and returns false.
C13_AsyncSaveFollowsDirtyFlag == [][\A t \in Callers : C13_SaveStep(t)]_vars

\* the file can be opened and holds every record its header announces
loads(file) == file.exists /\ file.count <= Len(file.recs)

\* the store holds exactly the services recorded in the file: every record
\* is a service of the store under its url, and every service of the store
\* stems from a record
holdsExactly(services, file) ==
    /\ \A k \in 1..file.count :
         \E i \in DOMAIN services :
           /\ services[i].m_oServiceURL = file.recs[k].url
           /\ services[i].m_nServiceType = file.recs[k].type
    /\ \A i \in DOMAIN services :
         \E k \in 1..file.count : file.recs[k].url = services[i].m_oServiceURL

C14_LoadStep(t) ==
    /\ (pc[t] = "ld_primary" /\ pc'[t] \notin { "ld_primary", "deadlock", "aborted" }) =>
          IF loads(files.primary)
          THEN pc'[t] = "idle" /\ ret'[t] = 1 /\ holdsExactly(m_mServices', files.primary)
          ELSE pc'[t] = "ld_backup"
    /\ (pc[t] = "ld_backup" /\ pc'[t] \notin { "ld_backup", "deadlock", "aborted" }
          /\ loads(files.backup)) =>
          pc'[t] = "idle" /\ ret'[t] = 1 /\ holdsExactly(m_mServices', files.backup)

\* C14: load() reads the primary file first and does not consult the backup
\* when the primary loads; when loading the primary fails it loads the
\* backup, and the store then holds exactly the backup's services, none left
\* over from the failed attempt on the primary.
C14_PrimaryThenBackup == [][C14_LoadStep(Worker)]_vars

\* the start-up helper has returned after a truncated primary file, whose
\* first record is service a, made it load service b from the backup
C14_Witness ==
    /\ op[Worker].name = "asyncStartUpHelper" /\ pc[Worker] = "idle" /\ ret[Worker] = 1
    /\ files.primary = fileOf(2, << storedA >>)
    /\ files.backup = fileOf(1, << storedB >>)
    /\ Cardinality(DOMAIN m_mServices) = 1
    /\ \A i \in DOMAIN m_mServices : m_mServices[i].m_oServiceURL = << "b" >>

\* load() returns in this step
loadReturns(t) == pc[t] \in { "ld_primary", "ld_backup" } /\ pc'[t] = "idle"

C15_LoadStep(t) ==
    loadReturns(t) =>
        IF ret'[t] = 1
        THEN holdsExactly(m_mServices', IF pc[t] = "ld_primary" THEN files.primary
                                                                ELSE files.backup)
        ELSE m_mServices' = << >>

\* C15: loading replaces: after any load(), whether the primary loaded, the
\* backup loaded, or both failed (both files missing included), no service
\* that was in the store before the load remains unless a file held it; when
\* both loads fail the store is empty.
C15_LoadReplaces == [][C15_LoadStep(Worker)]_vars

\* the slots the public operations post to the discovery thread
PostedSlots ==
    { "asyncStartUpHelper", "asyncSyncSavingHelper", "asyncRequestServiceListHelper",
      "asyncUpdateServiceHelper", "asyncQueryServiceHelper" }

\* a call is posted behind the calls already waiting
posts == Len(queue') = Len(queue) + 1 /\ SubSeq(queue', 1, Len(queue)) = queue

\* the discovery thread, having finished the previous call, starts the call
\* that has waited longest
delivers ==
    /\ pc[Worker] = "idle"
    /\ queue # << >>
    /\ queue' = Tail(queue)
    /\ op'[Worker] = Head(queue)
    /\ pc'[Worker] = helperEntry(Head(queue))

C16_Step ==
    /\ queue' # queue => (posts \/ delivers)
    /\ (op'[Worker] # op[Worker] \/ (pc[Worker] = "idle" /\ pc'[Worker] \notin { "idle", "aborted" }))
          => delivers
    /\ \A t \in Callers : op[t].name \notin PostedSlots

\* C16: posted operations are executed one at a time, in the order in which
\* they were posted, by the discovery thread alone: a posted operation starts
\* only when the previous one has finished, and it is the one that has waited
\* longest, so no two posted operations access the store at the same time.
C16_PostedInOrder == [][C16_Step]_vars

\* the start-up helper is still running while two later calls wait in the
\* order they were posted
C16_Witness ==
    /\ op[Worker].name = "asyncStartUpHelper" /\ pc[Worker] \in { "su_lock", "ld_primary", "ld_backup" }
    /\ Len(queue) = 2
    /\ queue[1].name = "asyncRequestServiceListHelper"
    /\ queue[2].name \in { "asyncUpdateServiceHelper", "asyncQueryServiceHelper" }

\* the operations documented as returning at once
nonBlockingCall(t) ==
    \/ op[t].name \in { "start", "requestServiceList", "updateService", "queryService" }
    \/ op[t].name = "save" /\ ~op[t].flag

\* the thread stands before an acquisition of m_pSection that another
\* thread's hold keeps from proceeding
waitsForLock(t) ==
    /\ pc[t] \in { "add_lock", "sv_lock", "sa_lock" }
    /\ m_pSection.owner \notin { NoThread, t }

\* C17: the non-blocking operations (start, save( false ), updateService and
\* queryService by network type or by id, requestServiceList) return without
\* ever waiting for the registry lock, also while another thread holds it.
C17_NonBlockingNeverWaits ==
    \A t \in Callers : nonBlockingCall(t) => ~waitsForLock(t)

\* the discovery thread runs a helper that was posted with a service id
runsById == op[Worker].name \in { "asyncUpdateServiceHelper", "asyncQueryServiceHelper" }
            /\ op[Worker].net = {}

\* the request the running helper makes of a service
requestOf(oCall) == IF oCall.name = "asyncUpdateServiceHelper" THEN "update" ELSE "query"

C18_Step ==
    /\ (runsById /\ pc[Worker] = "hb_lock" /\ pc'[Worker] \notin { "hb_lock", "aborted" }
          /\ op[Worker].id \in DOMAIN m_mServices) =>
          /\ pc'[Worker] = "hs_call"
          /\ loc'[Worker].pService = m_mServices[op[Worker].id]
    /\ (runsById /\ pc[Worker] = "hs_call" /\ pc'[Worker] \notin { "hs_call", "aborted" }) =>
          signals' = Append(signals, logSignal(requestOf(op[Worker]), op[Worker].id))

\* C18: a dispatched update or query by id invokes update() respectively
\* query() on the service with that id whenever the id is in the store when
\* the dispatched operation runs, whatever the service's banned flag, running
\* flag, rating and throttle state and whatever the state of the network.
C18_ByIdAlwaysInvokes == [][C18_Step]_vars

\* a helper posted with id 1 has made its request of service 1 although the
\* request made just before was still in flight
C18_Witness ==
    /\ runsById /\ op[Worker].id = 1 /\ pc[Worker] = "idle" /\ ret[Worker] = 1
    /\ Len(signals) >= 2
    /\ signals[Len(signals)] = logSignal(requestOf(op[Worker]), 1)
    /\ signals[Len(signals) - 1].sig \in { "update", "query" }
    /\ signals[Len(signals) - 1].id = 1
    /\ 1 \in DOMAIN m_mServices /\ m_mServices[1].m_bRunning

\* the step is a call of remove or of clear, or a load( sPath ) of load()
removeOrClearStep ==
    \/ \E t \in Callers : /\ nOps'[t] = nOps[t] + 1
                          /\ op'[t].name \in { "remove", "clear" }
    \/ pc[Worker] \in { "ld_primary", "ld_backup" } /\ pc'[Worker] # pc[Worker]

\* the services the step erases from the store
erased == { i \in DOMAIN m_mServices : i \notin DOMAIN m_mServices'
                                       \/ m_mServices'[i].m_oServiceURL # m_mServices[i].m_oServiceURL }

\* the signals the step adds to the log
newSignals == { signals'[k] : k \in (Len(signals) + 1)..Len(signals') }

C19_Step ==
    removeOrClearStep =>
        \A i \in erased : logSignal("cancelRequest", i) \in newSignals

\* C19: on every path by which a service leaves the store (remove( id ) and
\* clear(), the clear of stop() and the clears of load() included)
\* cancelRequest() is invoked on the service before it is erased.
C19_CancelBeforeErase == [][C19_Step]_vars

\* thread t calls count in this step
countStep(t) == nOps'[t] = nOps[t] + 1 /\ op'[t].name = "count"

\* the services that work for the network: they support it, are not banned
\* and have a positive rating
working(services, oType) ==
    { i \in DOMAIN services : /\ oType \in services[i].m_oNetworkType
                              /\ ~services[i].m_bBanned
                              /\ services[i].m_nRating > 0 }

C20_CountStep(t) ==
    countStep(t) =>
        \A oType \in op'[t].net :
          ret'[t] = IF oType = "dpNull"
                    THEN Cardinality(DOMAIN m_mServices)
                    ELSE Cardinality(working(m_mServices, oType))

\* C20: count with a null network filter returns the total number of stored
\* services whatever their banned flag and rating; count with a non-null
\* filter returns exactly the number of stored services that support that
\* network, are not banned and have a rating above zero.
C20_CountIsExact == [][\A t \in Callers : C20_CountStep(t)]_vars

\* count( dpG2 ) has returned 1 for a store of two services that both
\* support the network and have a positive rating, the first being banned
C20_Witness ==
    /\ op[Driver].name = "count" /\ op[Driver].net = { dpG2 }
    /\ pc[Driver] = "idle" /\ ret[Driver] = 1
    /\ DOMAIN m_mServices = { 1, 2 }
    /\ m_mServices[1].m_bBanned /\ m_mServices[1].m_nRating > 0
    /\ dpG2 \in m_mServices[1].m_oNetworkType

\* thread t calls remove in this step
removeStep(t) == nOps'[t] = nOps[t] + 1 /\ op'[t].name = "remove"

\* how often the step emits serviceRemoved( nID )
removedCount(nID) ==
    Cardinality({ k \in (Len(signals) + 1)..Len(signals') :
                    signals'[k] = logSignal("serviceRemoved", nID) })

C21_RemoveStep(t) ==
    removeStep(t) =>
        IF op'[t].id = 0 \/ op'[t].id \notin DOMAIN m_mServices
        THEN /\ ret'[t] = 0
             /\ \A nID \in RemoveIDs : removedCount(nID) = 0
             /\ m_mServices' = m_mServices
             /\ m_nLastID' = m_nLastID
        ELSE /\ ret'[t] = 1
             /\ removedCount(op'[t].id) = 1
             /\ op'[t].id \notin DOMAIN m_mServices'

\* C21: remove( id ) with id 0 or with an id that is not in the store returns
\* false, emits no serviceRemoved and leaves the store and m_nLastID as they
\* were; remove( id ) with an id of the store returns true, emits
\* serviceRemoved( id ) exactly once, and the id is no longer in the store.
C21_RemoveContract == [][\A t \in Callers : C21_RemoveStep(t)]_vars

\* remove( 1 ) has returned true and has taken service 1 out of a store that
\* still holds service 2
C21_Witness ==
    \E t \in Callers :
      /\ op[t].name = "remove" /\ op[t].id = 1 /\ pc[t] = "idle" /\ ret[t] = 1
      /\ DOMAIN m_mServices = { 2 }
      /\ \E k \in 1..Len(signals) : signals[k] = logSignal("serviceRemoved", 1)

\* two services of the store share their url and differ in their type
typeClash(services) ==
    \E i, j \in DOMAIN services :
      /\ services[i].m_oServiceURL = services[j].m_oServiceURL
      /\ services[i].m_nServiceType # services[j].m_nServiceType

\* C22: when a service is added whose url equals the url of a stored service
\* but whose type differs, and the build does not abort on assertions, the
\* existing service is kept and the new one is not inserted: the store never
\* holds two services with the same url and different types.
C22_NoTypeClash == ~aborted => ~typeClash(m_mServices)

\* the helper posted with a network type finds the network not accessible
\* and returns
networkDown == pc[Worker] = "hs_nam" /\ pc'[Worker] = "idle"

C23_Step ==
    networkDown =>
        /\ m_mServices' = m_mServices
        /\ signals' = signals
        /\ queue' = queue
        /\ loc'[Worker] = NoLocals

\* C23: when the network is reported not accessible, a dispatched update or
\* query by network type performs no selection, invokes update()/query() on
\* no service, changes no field of any stored service (no revival) and posts
\* no retry to the discovery thread.
C23_NetworkDownDoesNothing == [][C23_Step]_vars

\* the only helper posted has returned without a request although a
\* selection at the time the clock shows finds a candidate
C23_Witness ==
    /\ nOps[Driver] = 1 /\ queue = << >>
    /\ op[Worker].name \in { "asyncUpdateServiceHelper", "asyncQueryServiceHelper" }
    /\ op[Worker].net # {}
    /\ pc[Worker] = "idle" /\ ret[Worker] = 0
    /\ signals = << >>
    /\ selection(m_mServices, requestedType, tNow).list # << >>

\* the next statement of thread t acquires m_pSection: a lock() or a
\* QMutexLocker of its own, the QMutexLocker of count() called for the file
\* header, or the lock() of clear() called by load( sPath ) for an opened file
aboutToLock(t) ==
    \/ pc[t] \in { "add_lock", "sv_lock", "sa_lock", "su_lock", "hs_nam", "hs_select",
                   "hl_lock", "hb_lock", "sv_header" }
    \/ pc[t] = "ld_primary" /\ files.primary.exists
    \/ pc[t] = "ld_backup" /\ files.backup.exists

\* C24: no logical call acquires the registry lock again while it holds it:
\* every public or dispatched operation, the forced save (which calls count),
\* the start-up initialisation (which calls load and clear) and the defaults
\* loader included, holds the lock at most once at a time on its thread, so
\* that no operation blocks on the lock it holds itself.
C24_NoReacquisition ==
    \A t \in Threads : /\ ~(aboutToLock(t) /\ m_pSection.owner = t)
                       /\ pc[t] # "deadlock"

\* the next statement of thread t is a file operation (remove, open, write,
\* rename, copy, or the open and read of a load) or a request made of a
\* service (update, query)
aboutToDoIO(t) ==
    pc[t] \in { "sv_rmtmp", "sv_open", "sv_header", "sv_write", "sv_rmprim",
                "sv_rename", "sv_rmbak", "sv_copy", "ld_primary", "ld_backup",
                "hs_call" }

\* C25: the registry lock is never held while a file I/O call (open, read,
\* write, remove, rename, copy) or a call into a service that affects network
\* activity (update, query, cancelRequest) is executing: save, load, remove
\* and the dispatched helpers release the lock before any such call.
C25_NoLockAcrossIO ==
    \A t \in Threads : aboutToDoIO(t) => m_pSection.owner # t

\* thread t has executed m_bSaved = true in its current call of save
hasSetSaved(t) == pc[t] \in { "sv_rmprim", "sv_rename", "sv_rmbak", "sv_copy" }

C26_SaveStep(t) ==
    /\ (m_bSaved' # m_bSaved /\ pc'[t] # pc[t]) =>
          (m_bSaved' => pc'[t] = "idle" /\ ret'[t] = 1)
    /\ (hasSetSaved(t) /\ pc'[t] = "idle") => ret'[t] = 1

lookupStep == runsById /\ pc[Worker] = "hb_lock" /\ pc'[Worker] # "hb_lock"

\* C27: whenever a dispatched update or query by id executes, the requested
\* id is in the store, for every interleaving of the posts of
\* updateService( id ) / queryService( id ) with remove, clear and stop on
\* other threads: the assertion of the by-id helpers for an id that is not
\* found is never reached.
C27_PostedIdIsPresent == [][lookupStep => op[Worker].id \in DOMAIN m_mServices]_vars

\* two different ids of the store hold the same normalized url and type
duplicated(services) ==
    \E i, j \in DOMAIN services :
      /\ i # j
      /\ toLower(services[i].m_oServiceURL) = toLower(services[j].m_oServiceURL)
      /\ services[i].m_nServiceType = services[j].m_nServiceType

firstUnusedFrom(n, S) ==
    CHOOSE k \in n..(n + Cardinality(S)) : k \notin S /\ \A j \in n..(k - 1) : j \in S

\* thread t removes, in this step, a service whose id is below m_nLastID
removesBelowLast(t) ==
    /\ removeStep(t)
    /\ ret'[t] = 1
    /\ op'[t].id < m_nLastID

C29_Step(t) ==
    /\ removesBelowLast(t) => nextAddGets(op'[t].id)
    /\ (pc[t] = "add_lock" /\ pc'[t] = "add_emit" /\ loc[t].pService.m_nID = 0) =>
          /\ insertedIDs = { firstUnusedFrom(m_nLastID + 1, DOMAIN m_mServices) }
          /\ m_nLastID' = firstUnusedFrom(m_nLastID + 1, DOMAIN m_mServices)

\* C29: id recycling: when remove frees an id that is lower than m_nLastID,
\* m_nLastID is set so that the freed id is reused first, the next add that
\* assigns an id assigning exactly the freed id; and an add of a service
\* without an id assigns the first unused id found scanning upward from
\* m_nLastID + 1 and sets m_nLastID to that id.
C29_IdRecycling == [][\A t \in Callers : C29_Step(t)]_vars

\* two adds had made m_nLastID 2 when remove( 1 ) freed the lower id
C29_Witness ==
    /\ \E t \in Callers : op[t].name = "remove" /\ op[t].id = 1
                          /\ pc[t] = "idle" /\ ret[t] = 1
    /\ signals = << logSignal("serviceAdded", 1), logSignal("serviceAdded", 2),
                    logSignal("serviceRemoved", 1), logSignal("cancelRequest", 1) >>
    /\ DOMAIN m_mServices = { 2 }
    /\ m_nLastID = 0

\* every id up to m_nLastID is in use
denseBelowLast == \A k \in 1..m_nLastID : k \in DOMAIN m_mServices

C30_AddStep(t) ==
    (pc[t] = "add_lock" /\ pc'[t] = "add_emit" /\ loc[t].pService.m_nID = 0) =>
        insertedIDs = { firstUnusedFrom(1, DOMAIN m_mServices) }

\* C30: after any sequence of add, remove, clear and load every id in the
\* range 1..m_nLastID is in use by a stored service (m_nLastID is below the
\* smallest free id); consequently every add that assigns an id assigns the
\* smallest positive id that is not in the store.
C30_LastIdBelowFreeIds ==
    /\ []denseBelowLast
    /\ [][\A t \in Callers : C30_AddStep(t)]_vars

\* an add has been assigned id 1, the smallest free id, while the store held
\* service 2, and service 3 came after it
C30_Witness ==
    /\ DOMAIN m_mServices = { 1, 2, 3 }
    /\ m_nLastID = 3
    /\ Len(signals) >= 2
    /\ signals[Len(signals) - 1] = logSignal("serviceAdded", 1)
    /\ signals[Len(signals)] = logSignal("serviceAdded", 3)

\* a following load() succeeds: the primary or the backup file holds every
\* record its header announces
loadable(dir) == loads(dir.primary) \/ loads(dir.backup)

\* thread t is inside save( true ) and is the only thread that has called
\* anything so far
savesAlone(t) ==
    /\ op[t].name = "save" /\ pc[t] # "idle"
    /\ \A u \in Callers \ { t } : nOps[u] = 0
    /\ op[Worker] = NoOp /\ queue = << >>

C31_SaveStep(t) ==
    (savesAlone(t) /\ pc'[t] # pc[t] /\ loadable(files)) => loadable(files')

\* C31: crash safety of the file rotation: if a complete primary file or a
\* complete backup file exists when a save starts, then at every intermediate
\* step of that save, and after it returns (true or false), at least one of
\* the primary and backup files exists and holds a complete snapshot, so that
\* a following load() can succeed.  Stated per step of a save that runs alone:
\* a step taken while one of the two files is complete leaves one complete.
C31_RotationKeepsACompleteFile == [][\A t \in Callers : C31_SaveStep(t)]_vars

\* thread u has opened the temp file in its current save and has still to
\* write it or to rename it
usesTemp(u) ==
    /\ op[u].name = "save"
    /\ \/ pc[u] \in { "sv_header", "sv_write", "sv_rename" }
       \/ pc[u] = "sv_rmprim" /\ files.primary.exists

\* the step of thread t deletes the temp file or renames it
takesTemp(t) ==
    /\ pc[t] \in { "sv_rmtmp", "sv_rename" } /\ pc'[t] # pc[t]
    /\ files.temp.exists /\ ~files'.temp.exists

\* only the two saves have been called, and both have returned
bothSavesReturned ==
    /\ \A t \in Callers : nOps[t] = 1 /\ op'[t].name = "save" /\ pc'[t] = "idle"
    /\ op[Worker] = NoOp /\ queue = << >>

C32_Step(t, u) ==
    /\ (t # u /\ usesTemp(u)) => ~takesTemp(t)
    /\ (t # u /\ op[u].name = "save" /\ pc[t] = "sv_rename" /\ pc'[t] # pc[t]) =>
          canRename(files.temp, files.primary)
    /\ (pc[t] = "sv_copy" /\ pc'[t] = "idle" /\ bothSavesReturned) =>
          /\ \A v \in Callers : ret'[v] = 1
          /\ holdsSnapshot(files'.primary, m_mServices)

\* C32: when two threads run save( true ) concurrently and file operations
\* fail only for want of their source file, one save never deletes or
\* renames the temp file the other save is still using, the rename of either
\* save finds its temp file and a free primary path (so both saves return
\* true), and after both have returned the primary file exists and holds a
\* complete snapshot of the store.
C32_ConcurrentSaves == [][\A t, u \in Callers : C32_Step(t, u)]_vars

\* remove( nID ) has returned true and the id has not been handed out since
removedByCall(nID) ==
    /\ nID \notin DOMAIN m_mServices
    /\ \E k \in 1..Len(signals) :
         /\ signals[k] = logSignal("cancelRequest", nID)
         /\ \A j \in (k + 1)..Len(signals) : signals[j] # logSignal("serviceAdded", nID)

\* the discovery thread starts update() or query() on the service it holds
startsRequest == pc[Worker] = "hs_call" /\ pc'[Worker] = "idle"

\* C33: once remove( id ) has returned true, update() or query() is never
\* started on the removed service; in particular a dispatched update or
\* query by network that selected the service before the removal does not
\* invoke update() or query() on it after the removal's cancelRequest().
C33_NoRequestAfterRemove ==
    [][startsRequest => ~removedByCall(loc[Worker].pService.m_nID)]_vars

\* thread u has inserted service nID and has still to emit serviceAdded for it
addedUnannounced(u, nID) == pc[u] = "add_emit" /\ loc[u].pService.m_nID = nID

C34_Step ==
    \A nID \in DOMAIN m_mServices :
      logSignal("serviceRemoved", nID) \in newSignals =>
          \A u \in Callers : ~addedUnannounced(u, nID)

\* C34: for every service, the serviceAdded notification for it is emitted
\* before any serviceRemoved notification for that same service, under every
\* interleaving of add on one thread with remove or clear( true ) on another
\* thread: no serviceRemoved is emitted for a service whose serviceAdded is
\* still to come.
C34_AddedBeforeRemoved == [][C34_Step]_vars

\* the candidate list the selection of this step builds
candidates == selection(m_mServices, requestedType, tNow').list

inList(list, nID) == \E k \in 1..Len(list) : list[k] = nID

C35_SelectStep ==
    selectStep =>
      /\ \A nID \in DOMAIN m_mServices :
           ~inList(candidates, nID) =>
               /\ m_mServices'[nID].m_nRating = m_mServices[nID].m_nRating
               /\ m_mServices'[nID].m_nZeroRevivals = m_mServices[nID].m_nZeroRevivals
      /\ candidates = << >> => m_mServices' = m_mServices

\* C35: a selection for network type N modifies only services that become
\* candidates of that selection: the rating and zeroRevivals of every service
\* that does not support N, is running, or is otherwise not put in the
\* candidate list are left unchanged, and a selection that returns no service
\* changes no service at all.
C35_SelectionTouchesOnlyCandidates == [][C35_SelectStep]_vars

\* the timer objects the list refers to, and those the queue refers to
listed == { signalQueue.m_Signals[i] : i \in 1..Len(signalQueue.m_Signals) }

queued == { signalQueue.m_QueuedSignals[k].value : k \in 1..Len(signalQueue.m_QueuedSignals) }

\* C36: whenever the lock of the timed signal queue is free, after any
\* sequence of push, pop, setInterval, clear and checkSchedule, the timer
\* list m_Signals and the time-ordered queue m_QueuedSignals refer to exactly
\* the same set of timer objects and none of them has been deleted; in
\* particular a single-shot timer that has fired is referenced by neither.
C36_ContainersAgree ==
    (QueueLockFree /\ ~aborted) =>
        /\ listed = queued
        /\ \A p \in listed \cup queued : ~signalQueue.heap[p].deleted

\* the last call of some thread was pop( oTimer_ID ) and it returned true
popReturnedTrue(oTimer_ID) ==
    \E t \in Callers :
      /\ op[t].name = "pop" /\ op[t].oTimer_ID = oTimer_ID
      /\ pc[t] = "idle" /\ ret[t] = 1

\* a timer with the UUID is in the time-ordered queue
isQueued(oTimer_ID) ==
    \E k \in 1..Len(signalQueue.m_QueuedSignals) :
      signalQueue.heap[signalQueue.m_QueuedSignals[k].value].m_oUUID = oTimer_ID

\* the step fires the timer with the UUID
fires(oTimer_ID) ==
    \E sig \in { "emitSignal", "emitSignalFailed" } :
      signals' = Append(signals, logSignal(sig, oTimer_ID))

\* C37: once pop( uuid ) has returned true, no timer with that UUID is queued
\* and its signal is never emitted again, even when setInterval( uuid, ... )
\* or checkSchedule runs concurrently on another thread; in particular
\* setInterval never re-queues a timer that was removed after setInterval
\* released the lock.
C37_PoppedStaysCancelled ==
    /\ [](\A oTimer_ID \in PopIDs : popReturnedTrue(oTimer_ID) => ~isQueued(oTimer_ID))
    /\ [][\A oTimer_ID \in PopIDs : popReturnedTrue(oTimer_ID) => ~fires(oTimer_ID)]_vars

\* the pass of checkSchedule fires a timer in this step, and its number
\* among the firings of the pass
passFires == pc[Worker] = "cs_loop" /\ signals' # signals

firingNo == Len(signals') - expected.first + 1

\* the pass of checkSchedule ends in this step
passEnds == pc[Worker] = "cs_loop" /\ pc'[Worker] = "idle"

isQueuedAt(sq, p, tKey) ==
    \E k \in 1..Len(sq.m_QueuedSignals) :
      sq.m_QueuedSignals[k] = [ key |-> tKey, value |-> p ]

C38_Step ==
    /\ passFires =>
         LET fired == signalQueue.m_QueuedSignals[1]
             pObj  == signalQueue.heap[fired.value]
         IN /\ firingNo <= Len(expected.due)
            /\ fired = expected.due[firingNo]
            /\ fired.key < loc[Worker].tTimeMs
            /\ firingNo > 1 => expected.due[firingNo - 1].key <= fired.key
            /\ IF pObj.m_bMultiShot /\ signals'[Len(signals')].sig = "emitSignal"
               THEN /\ isQueuedAt(signalQueue', fired.value, tNow + pObj.m_tInterval)
                    /\ tNow + pObj.m_tInterval >= loc[Worker].tTimeMs
                    /\ Len(signalQueue'.m_QueuedSignals) = Len(signalQueue.m_QueuedSignals)
               ELSE signalQueue'.m_QueuedSignals = Tail(signalQueue.m_QueuedSignals)
    /\ passEnds => Len(signals) - expected.first + 1 = Len(expected.due)

\* C38: one pass of checkSchedule emits exactly the queued timers whose due
\* time is strictly less than the time read at the start of the pass, in
\* non-decreasing due-time order and each at most once; a multi-shot timer
\* whose emission succeeded is re-queued with due time = current time +
\* interval (never earlier than the time the pass read, so that the pass ends
\* even for interval 0), and every other fired timer is removed from the
\* queue.
C38_OnePass == [][C38_Step]_vars

\* a pass has ended that fired two timers, the later due one last, and
\* re-queued a multi-shot timer of interval 0 at the time it fired
C38_Witness ==
    /\ op[Worker].name = "checkSchedule" /\ pc[Worker] = "idle"
    /\ Len(expected.due) = 2
    /\ expected.due[1].key < expected.due[2].key
    /\ Len(signals) = expected.first + 1
    /\ signals[Len(signals)].sig = "emitSignal"
    /\ \E k \in 1..Len(signalQueue.m_QueuedSignals) :
         LET e == signalQueue.m_QueuedSignals[k] IN
         /\ signalQueue.heap[e.value].m_tInterval = 0
         /\ signalQueue.heap[e.value].m_bMultiShot
         /\ e.value = expected.due[2].value
         /\ e.key = tNow


====
